----------------------------- MODULE RequestProofs -----------------------------
(***************************************************************************)
(* Proofs about a command of the CLI: what it has touched by the time it   *)
(* is refused, what its exit code tells, which names are derived from a    *)
(* URL, and that the name a server escaped is read as it was meant.        *)
(***************************************************************************)
EXTENDS Request, SequenceTheorems, WellFoundedInduction, TLAPS

(***************************************************************************)
(* The steps of a command.                                                 *)
(***************************************************************************)

Stages == {"typing", "validate", "look", "send", "wait", "create", "stream", "finalize", "ended"}
Invalid == {"InvalidUrl", "InvalidPath", "InvalidFileName"}
Early == {"typing", "validate", "look"}
Untouched == sent = 0 /\ dir # "new" /\ part = "none" /\ target # "new"

\* Nothing is touched before the request goes out, and only what comes before
\* it calls a URL or a path invalid.
RefusedInv ==
  /\ stage \in Early => Untouched
  /\ err \in Invalid => stage = "ended" /\ Untouched

\* Where the part file and the output are, stage by stage.
ExitInv ==
  /\ stage \in Stages /\ err \in Errors \cup {"none"}
  /\ err # "none" => stage = "ended"
  /\ part = "open" => stage \in {"stream", "finalize"}
  /\ part = "left" => err # "none"
  /\ command = "inspect" => stage \in {"typing", "send", "wait", "ended"}
  /\ target = "new" => stage = "ended" /\ err = "none"
  /\ stage = "ended" /\ err = "none" /\ command # "inspect" => target = "new"

\* What the validators can answer.
LEMMA OutputErrors ==
  ASSUME NEW p
  PROVE  OutputError(p) \in {"none", "InvalidPath", "InvalidFileName"}
BY DEF OutputError

\* Exit code 0 is for a command that ended without an error.
LEMMA ExitZero ==
  ASSUME err \in Errors \cup {"none"}
  PROVE  (Exit = 0) = (err = "none")
BY DEF Exit, Errors

LEMMA NextRefused == RefusedInv /\ [Next]_vars => RefusedInv'
<1> SUFFICES ASSUME RefusedInv, [Next]_vars PROVE RefusedInv'
  OBVIOUS
<1> USE DEF RefusedInv, Early, Untouched, Invalid, Become, Refuse, typed, disk, vars
<1>1. ASSUME NEW c \in Letters \cup UrlLetters, Type(c) PROVE RefusedInv'
  BY <1>1 DEF Type
<1>2. CASE Parse
  BY <1>2 DEF Parse
<1>3. CASE Validate
  BY <1>3 DEF Validate
<1>4. CASE Look
  BY <1>4 DEF Look, Seen
<1>5. CASE Inspect \/ Send
  BY <1>5 DEF Inspect, Send
<1>6. CASE Redirected \/ Unanswered \/ Rejected \/ Served
  BY <1>6 DEF Redirected, Unanswered, Rejected, Served
<1>7. CASE CreatePart
  BY <1>7 DEF CreatePart
<1>8. CASE BodyFails \/ BodyArrives
  BY <1>8 DEF BodyFails, BodyArrives, Drop
<1>9. CASE Intrude
  BY <1>9 DEF Intrude
<1>10. CASE Finalize
  BY <1>10 DEF Finalize, Drop, Seen
<1>11. CASE UNCHANGED vars
  BY <1>11
<1> QED
  BY <1>1, <1>2, <1>3, <1>4, <1>5, <1>6, <1>7, <1>8, <1>9, <1>10, <1>11 DEF Next

LEMMA NextExit == ExitInv /\ [Next]_vars => ExitInv'
<1> SUFFICES ASSUME ExitInv, [Next]_vars PROVE ExitInv'
  OBVIOUS
<1> USE DEF ExitInv, Stages, Errors, Become, Refuse, typed, disk, vars
<1>1. ASSUME NEW c \in Letters \cup UrlLetters, Type(c) PROVE ExitInv'
  BY <1>1 DEF Type
<1>2. CASE Parse
  BY <1>2, OutputErrors DEF Parse
<1>3. CASE Validate
  BY <1>3, OutputErrors DEF Validate
<1>4. CASE Look
  BY <1>4 DEF Look, Seen
<1>5. CASE Inspect \/ Send
  BY <1>5 DEF Inspect, Send
<1>6. CASE Redirected \/ Unanswered \/ Rejected \/ Served
  BY <1>6 DEF Redirected, Unanswered, Rejected, Served
<1>7. CASE CreatePart
  BY <1>7 DEF CreatePart
<1>8. CASE BodyFails \/ BodyArrives
  BY <1>8 DEF BodyFails, BodyArrives, Drop
<1>9. CASE Intrude
  BY <1>9 DEF Intrude
<1>10. CASE Finalize
  BY <1>10 DEF Finalize, Drop, Seen
<1>11. CASE UNCHANGED vars
  BY <1>11
<1> QED
  BY <1>1, <1>2, <1>3, <1>4, <1>5, <1>6, <1>7, <1>8, <1>9, <1>10, <1>11 DEF Next

\* A command refused for its URL or its path has touched nothing: the checks of
\* run() and validate_request come before the first directory and the first
\* request, and nothing later answers with one of their errors.
THEOREM RefusedEarly == Spec => []RefusedUntouched
<1>1. Init => RefusedInv
  BY DEF Init, RefusedInv, Untouched, Invalid
<1>2. RefusedInv => RefusedUntouched
  BY DEF RefusedInv, RefusedUntouched, Untouched, Invalid
<1> QED
  BY <1>1, <1>2, NextRefused, PTL DEF Spec

\* A download exits with 0 if and only if its file is in place; a part file is
\* never open once the command has ended, and is left only by one that failed.
THEOREM ExitCode == Spec => []ExitTells
<1>1. Init => ExitInv
  BY DEF Init, ExitInv, Stages, Errors
<1>2. ExitInv => ExitTells
  <2> SUFFICES ASSUME ExitInv PROVE ExitTells
    OBVIOUS
  <2>1. (Exit = 0) = (err = "none")
    BY ExitZero DEF ExitInv
  <2> QED
    BY <2>1 DEF ExitInv, ExitTells
<1> QED
  BY <1>1, <1>2, NextExit, PTL DEF Spec

(***************************************************************************)
(* Names.                                                                  *)
(***************************************************************************)

\* A set of natural numbers that is not empty has a least element.
LEMMA LeastNat ==
  ASSUME NEW T, T \subseteq Nat, T # {}
  PROVE  \E m \in T : \A n \in T : m <= n
<1> DEFINE R == {ss \in Nat \X Nat : ss[1] < ss[2]}
<1>1. IsWellFoundedOn(R, Nat)
  BY NatLessThanWellFounded DEF OpToRel
<1>2. \A x, y \in Nat : x < y => <<x, y>> \in R
  OBVIOUS
<1> HIDE DEF R
<1>3. PICK x \in T : \A y \in T : ~ (<<y, x>> \in R)
  BY <1>1, WFMin
<1>4. ASSUME NEW y \in T PROVE x <= y
  <2>1. x \in Nat /\ y \in Nat
    OBVIOUS
  <2>2. ~ (y < x)
    BY <1>2, <1>3, <2>1
  <2> QED
    BY <2>1, <2>2
<1> QED
  BY <1>3, <1>4

\* The trimmed name ends where the last character that is no dot and no space
\* stands.
LEMMA KeptExists ==
  ASSUME NEW s \in Text
  PROVE  /\ Kept(s) \in 0..Len(s)
         /\ Kept(s) > 0 => s[Kept(s)] \notin Trims
<1> DEFINE Ends(k) == \A i \in 1..Len(s) : i > k => s[i] \in Trims
           T == {k \in 0..Len(s) : Ends(k)}
<1>1. Len(s) \in Nat
  BY DEF Text
<1>2. Len(s) \in T /\ T \subseteq Nat
  BY <1>1
<1>3. PICK m \in T : \A n \in T : m <= n
  <2> HIDE DEF T
  <2> QED
    BY <1>2, LeastNat
<1>4. m > 0 => s[m] \notin Trims
  <2> SUFFICES ASSUME m > 0, s[m] \in Trims PROVE FALSE
    OBVIOUS
  <2>1. m \in 0..Len(s) /\ m - 1 \in 0..Len(s)
    BY <1>1
  <2>2. ASSUME NEW i \in 1..Len(s), i > m - 1 PROVE s[i] \in Trims
    <3>1. i = m \/ i > m
      BY <1>1, <2>1, <2>2
    <3> QED
      BY <2>2, <3>1
  <2>3. m - 1 \in T
    BY <2>1, <2>2
  <2>4. m <= m - 1
    <3> HIDE DEF T
    <3> QED
      BY <1>3, <2>3
  <2> QED
    BY <2>1, <2>4
<1>5. \E k \in 0..Len(s) :
        (\A i \in 1..Len(s) : i > k => s[i] \in Trims) /\ (k > 0 => s[k] \notin Trims)
  BY <1>3, <1>4
<1> QED
  BY <1>5 DEF Kept

\* Without a slash a name is its only part.
LEMMA OnePart ==
  ASSUME NEW p \in Text, p # <<>>, ~Has(p, {"/"})
  PROVE  Parts(p) = {<<1, Len(p)>>} /\ Part(p, <<1, Len(p)>>) = p
<1>1. Len(p) \in Nat /\ Len(p) >= 1
  BY DEF Text
<1>2. \A k \in 1..Len(p) : p[k] # "/"
  BY DEF Has
<1>3. ASSUME NEW b \in Parts(p) PROVE b = <<1, Len(p)>>
  <2>1. b \in (1..Len(p)) \X (1..Len(p))
    BY DEF Parts
  <2>2. b[1] \in 1..Len(p) /\ b[2] \in 1..Len(p) /\ b = <<b[1], b[2]>>
    BY <2>1
  <2>3. b[1] = 1
    <3>1. b[1] # 1 => b[1] - 1 \in 1..Len(p) /\ p[b[1] - 1] = "/"
      BY <1>1, <2>2 DEF Parts
    <3> QED
      BY <1>2, <3>1
  <2>4. b[2] = Len(p)
    <3>1. b[2] # Len(p) => b[2] + 1 \in 1..Len(p) /\ p[b[2] + 1] = "/"
      BY <1>1, <2>2 DEF Parts
    <3> QED
      BY <1>2, <3>1
  <2> QED
    BY <2>2, <2>3, <2>4
<1>4. <<1, Len(p)>> \in Parts(p)
  BY <1>1, <1>2 DEF Parts
<1>5. Part(p, <<1, Len(p)>>) = p
  BY <1>1 DEF Part, Text
<1> QED
  BY <1>3, <1>4, <1>5

\* A name of one part that is neither "." nor ".." is refused only for its
\* length or because it is the name of a device.
LEMMA OnePartOk ==
  ASSUME NEW p \in Text, p # <<>>, ~Has(p, {"/", "back"} \cup Control),
         p # <<".">>, p # <<".", ".">>, OutputError(p) # "none"
  PROVE  Len(p) > MaxName \/ ReservedName(p)
<1>1. ~Has(p, {"/"}) /\ ~Has(p, {"nul"}) /\ ~ControlBytes(p)
  BY DEF Has, Control, ControlBytes
<1>2. Parts(p) = {<<1, Len(p)>>} /\ Part(p, <<1, Len(p)>>) = p
  BY <1>1, OnePart
<1>3. Normal(p) = {<<1, Len(p)>>}
  BY <1>2 DEF Normal
<1>4. ~Climbs(p)
  BY <1>2 DEF Climbs
<1>5. PathOk(p)
  BY <1>1, <1>2, <1>3, <1>4 DEF PathOk
<1>6. FileName(p) = p
  <2>1. (CHOOSE b \in Normal(p) : \A c \in Normal(p) : c[1] <= b[1]) = <<1, Len(p)>>
    BY <1>3
  <2> QED
    BY <1>2, <2>1 DEF FileName
<1>7. ~ValidFileName(p) \/ ReservedName(p)
  BY <1>5, <1>6 DEF OutputError
<1> QED
  BY <1>7, NamesAssumption DEF ValidFileName, Text

\* What the sanitizer makes of any name.
LEMMA Sanitized ==
  ASSUME NEW s \in Text
  PROVE  LET p == Sanitize(s)
         IN  /\ p \in Text /\ p # <<>>
             /\ ~Has(p, {"/", "back"} \cup Control)
             /\ p[Len(p)] # "."
<1> DEFINE r == Replaced(s)
           t == TrimEnd(r)
           p == Sanitize(s)
           Bad == {"/", "back"} \cup Control
<1>1. /\ r \in Text /\ Len(r) = Len(s)
      /\ \A i \in 1..Len(r) : r[i] \notin Bad
  <2>1. Len(s) \in Nat /\ \A i \in 1..Len(s) : s[i] \in Chars
    BY DEF Text
  <2>2. ASSUME NEW i \in 1..Len(s) PROVE r[i] \in Chars /\ r[i] \notin Bad
    <3>1. r[i] = IF s[i] \in {"/", "back", "bad"} \cup Control THEN "a" ELSE s[i]
      BY <2>1 DEF Replaced
    <3>2. "a" \in Chars /\ "a" \notin Bad
      BY DEF Chars, Control
    <3> HIDE DEF r
    <3> QED
      BY <2>1, <3>1, <3>2
  <2>3. r = [i \in 1..Len(s) |-> r[i]]
    BY DEF Replaced
  <2> HIDE DEF r
  <2>4. r \in Seq(Chars) /\ Len(r) = Len(s)
    BY <2>1, <2>2, <2>3
  <2> QED
    BY <2>2, <2>4 DEF Text
<1> HIDE DEF r
<1>2. Kept(r) \in 0..Len(r) /\ (Kept(r) > 0 => r[Kept(r)] \notin Trims)
  BY <1>1, KeptExists
<1>3. /\ t \in Text /\ Len(t) = Kept(r)
      /\ \A i \in 1..Len(t) : t[i] = r[i]
  BY <1>1, <1>2 DEF TrimEnd, Text
<1> HIDE DEF t
<1>4. CASE t = <<>>
  <2>1. p = <<"a">> \o <<".", "a">>
    BY <1>4 DEF Sanitize, Fallback, Bin, t, r
  <2> HIDE DEF p
  <2>a. "a" \in Chars /\ "." \in Chars
    BY DEF Chars
  <2>2. /\ p \in Text /\ Len(p) = 3
        /\ p[1] = "a" /\ p[2] = "." /\ p[3] = "a"
    BY <2>1, <2>a DEF Text
  <2>3. p # <<>> /\ \A i \in 1..Len(p) : p[i] \notin Bad
    BY <2>2 DEF Control
  <2> QED
    BY <2>2, <2>3 DEF Has, p
<1>5. CASE t # <<>>
  <2>1. /\ Len(t) \in 1..Len(r) /\ t[Len(t)] \notin Trims
        /\ \A i \in 1..Len(t) : t[i] \notin Bad
    BY <1>1, <1>2, <1>3, <1>5 DEF Text
  <2>2. CASE p = t
    <3> HIDE DEF p
    <3>1. ~Has(t, Bad)
      BY <2>1 DEF Has
    <3>2. t[Len(t)] # "."
      <4>1. "." \in Trims
        BY DEF Trims
      <4> QED
        BY <2>1, <4>1
    <3> QED
      BY <1>3, <1>5, <2>2, <3>1, <3>2 DEF p
  <2>3. CASE p = t \o <<".", "a">>
    <3> HIDE DEF p
    <3>2. Len(t) \in Nat
      BY <1>3 DEF Text
    <3>b. "a" \in Chars /\ "." \in Chars
      BY DEF Chars
    <3>a. <<".", "a">> \in Text /\ Len(<<".", "a">>) = 2
      BY <3>b DEF Text
    <3>1. /\ p \in Text /\ Len(p) = Len(t) + 2
          /\ \A i \in 1..Len(t) : p[i] = t[i]
          /\ p[Len(t) + 1] = "." /\ p[Len(t) + 2] = "a"
      BY <1>3, <2>3, <3>2, <3>a DEF Text
    <3>3. ASSUME NEW i \in 1..Len(p) PROVE p[i] \notin Bad
      <4>1. i \in 1..Len(t) \/ i = Len(t) + 1 \/ i = Len(t) + 2
        BY <3>1, <3>2
      <4> QED
        BY <2>1, <3>1, <4>1 DEF Control
    <3>4. p # <<>> /\ p[Len(p)] # "."
      BY <3>1, <3>2
    <3> QED
      BY <3>1, <3>3, <3>4 DEF Has, p
  <2> QED
    BY <1>5, <2>2, <2>3 DEF Sanitize, Bin, t, r
<1> QED
  BY <1>4, <1>5

\* The user's URL is text.
SegmentText == segment \in Text

LEMMA NextSegment == SegmentText /\ [Next]_vars => SegmentText'
<1> USE DEF SegmentText
<1> SUFFICES ASSUME segment \in Text, [Next]_vars PROVE segment' \in Text
  OBVIOUS
<1>1. ASSUME NEW c \in Letters \cup UrlLetters, Type(c) PROVE segment' \in Text
  <2>1. segment' = segment \/ (c \in Chars /\ segment' = Append(segment, c))
    BY <1>1, RequestAssumption DEF Type
  <2> QED
    BY <2>1 DEF Text
<1>2. CASE UNCHANGED segment
  BY <1>2
<1>3. CASE Parse \/ Validate \/ Look \/ Inspect \/ Send
  BY <1>3 DEF Parse, Validate, Look, Inspect, Send, typed
<1>4. CASE Redirected \/ Unanswered \/ Rejected \/ Served \/ CreatePart
  BY <1>4 DEF Redirected, Unanswered, Rejected, Served, CreatePart, typed
<1>5. CASE BodyFails \/ BodyArrives \/ Intrude \/ Finalize
  BY <1>5 DEF BodyFails, BodyArrives, Intrude, Finalize, Drop, typed
<1> QED
  BY <1>1, <1>2, <1>3, <1>4, <1>5 DEF Next, vars, typed

\* Whatever the URL, the name derived from it is one relative component, and it
\* is refused only if it is too long for the file system or names a device: the
\* sanitizer leaves no separator, no control byte and no dot at the end.
THEOREM NameDerived == Spec => []DerivedName
<1>1. Init => SegmentText
  BY DEF Init, SegmentText, Text
<1>2. SegmentText => DerivedName
  <2> SUFFICES ASSUME segment \in Text PROVE DerivedName
    BY DEF SegmentText
  <2> DEFINE p == DefaultOutput(segment)
  <2>1. /\ p \in Text /\ p # <<>>
        /\ ~Has(p, {"/", "back"} \cup Control)
        /\ p[Len(p)] # "."
    BY Sanitized DEF DefaultOutput
  <2> HIDE DEF p
  <2>2. ~Has(p, {"/"}) /\ p # <<".">> /\ p # <<".", ".">> /\ ~Absolute(p)
    BY <2>1 DEF Has, Absolute, Text
  <2>3. Parts(p) = {<<1, Len(p)>>}
    BY <2>1, <2>2, OnePart
  <2>4. OutputError(p) # "none" => Len(p) > MaxName \/ ReservedName(p)
    BY <2>1, <2>2, OnePartOk
  <2> QED
    BY <2>2, <2>3, <2>4 DEF DerivedName, p
<1> QED
  BY <1>1, <1>2, NextSegment, PTL DEF Spec

(***************************************************************************)
(* Decoding what was escaped.  A recursive function is what its equation   *)
(* says once some function meets the equation; that one does, and what it  *)
(* computes, is shown by counting up (Climb).                              *)
(***************************************************************************)

\* A set of numbers with 0 and with the successor of each has all of them.
LEMMA Climb ==
  ASSUME NEW n \in Nat, NEW T, 0 \in T, \A k \in 0..n : k < n /\ k \in T => k + 1 \in T
  PROVE  \A k \in 0..n : k \in T
<1> DEFINE M == {k \in 0..n : k \notin T}
<1> SUFFICES ASSUME M # {} PROVE FALSE
  OBVIOUS
<1>1. M \subseteq Nat
  OBVIOUS
<1>2. PICK m \in M : \A k \in M : m <= k
  <2> HIDE DEF M
  <2> QED
    BY <1>1, LeastNat
<1>3. m \in 0..n /\ m \notin T /\ m # 0
  OBVIOUS
<1>4. m - 1 \in 0..n /\ m - 1 \notin M
  BY <1>2, <1>3
<1>5. m - 1 \in T
  BY <1>4
<1>6. (m - 1) + 1 \in T
  BY <1>3, <1>4, <1>5
<1> QED
  BY <1>3, <1>6

\* Hexadecimal digits, upper or lower case, are read back.
LEMMA HexRead ==
  ASSUME NEW n \in 0..15, NEW base \in {65, 97}
  PROVE  Hex(HexDigit(n, base)) = n /\ HexDigit(n, base) \in Nat
<1>1. CASE n < 10
  <2>1. HexDigit(n, base) \in 48..57 /\ HexDigit(n, base) = 48 + n
    BY <1>1 DEF HexDigit
  <2> QED
    BY <2>1 DEF Hex
<1>2. CASE ~(n < 10)
  <2>1. HexDigit(n, base) = base + n - 10
    BY <1>2 DEF HexDigit
  <2>2. CASE base = 65
    <3>1. HexDigit(n, base) \in 65..70 /\ HexDigit(n, base) \notin 48..57 /\ HexDigit(n, base) \notin 97..102
      BY <1>2, <2>1, <2>2
    <3> QED
      BY <2>1, <2>2, <3>1 DEF Hex
  <2>3. CASE base = 97
    <3>1. HexDigit(n, base) \in 97..102 /\ HexDigit(n, base) \notin 48..57 /\ HexDigit(n, base) \notin 65..70
      BY <1>2, <2>1, <2>3
    <3> QED
      BY <2>1, <2>3, <3>1 DEF Hex
  <2> QED
    BY <2>2, <2>3
<1> QED
  BY <1>1, <1>2

\* The recursion of percent_decode has a solution, and PercentDecode is its value
\* at the first byte.
Decoded(s, f, i) ==
  IF i > Len(s) THEN <<>>
  ELSE IF Escape(s, i) THEN <<16 * Hex(s[i + 1]) + Hex(s[i + 2])>> \o f[i + 3]
  ELSE <<s[i]>> \o f[i + 1]

LEMMA DecodeTotal ==
  ASSUME NEW s \in Seq(Nat)
  PROVE  \E f : f = [i \in 1..(Len(s) + 1) |-> Decoded(s, f, i)]
<1> DEFINE n == Len(s)
           Meets(g, m) == \A i \in (n + 1 - m)..(n + 1) : g[i] = Decoded(s, g, i)
           T == {m \in 0..n : \E g : Meets(g, m)}
<1>0. n \in Nat
  OBVIOUS
<1>1. 0 \in T
  <2> DEFINE g == [i \in {n + 1} |-> <<>>]
  <2>1. Meets(g, 0)
    BY <1>0 DEF Decoded
  <2> QED
    BY <1>0, <2>1
<1>2. ASSUME NEW m \in 0..n, m < n, m \in T PROVE m + 1 \in T
  <2>1. PICK g : Meets(g, m)
    BY <1>2
  <2> DEFINE j == n - m
             h == [i \in j..(n + 1) |-> IF i = j THEN Decoded(s, g, j) ELSE g[i]]
  <2>2. j \in 1..n
    BY <1>0, <1>2
  <2>3. ASSUME NEW i \in j..(n + 1) PROVE h[i] = Decoded(s, h, i)
    <3>1. Decoded(s, h, i) = Decoded(s, g, i)
      <4>1. CASE i > n
        BY <1>0, <4>1 DEF Decoded
      <4>2. CASE i <= n /\ Escape(s, i)
        <5>0. i + 2 <= n
          BY <4>2 DEF Escape
        <5>a. i \in Int /\ j \in Int /\ n \in Int /\ j <= i
          BY <1>0, <2>2
        <5>1. i + 3 \in j..(n + 1) /\ i + 3 # j
          BY <5>0, <5>a
        <5>2. h[i + 3] = g[i + 3]
          BY <5>1
        <5> QED
          BY <1>0, <2>2, <4>2, <5>2 DEF Decoded
      <4>3. CASE i <= n /\ ~Escape(s, i)
        <5>1. i + 1 \in j..(n + 1) /\ i + 1 # j
          BY <1>0, <2>2, <4>3
        <5>2. h[i + 1] = g[i + 1]
          BY <5>1
        <5> QED
          BY <1>0, <2>2, <4>3, <5>2 DEF Decoded
      <4>4. i > n \/ i <= n
        BY <1>0, <2>2
      <4> QED
        BY <4>1, <4>2, <4>3, <4>4
    <3>2. CASE i = j
      BY <3>1, <3>2
    <3>3. CASE i # j
      <4>1. i \in (n + 1 - m)..(n + 1)
        BY <1>0, <1>2, <2>2, <3>3
      <4>2. g[i] = Decoded(s, g, i)
        BY <2>1, <4>1
      <4> QED
        BY <3>1, <3>3, <4>2
    <3> QED
      BY <3>2, <3>3
  <2> HIDE DEF h
  <2>4. Meets(h, m + 1)
    BY <1>0, <1>2, <2>3
  <2> QED
    BY <1>0, <1>2, <2>4
<1>3. n \in T
  <2>1. \A k \in 0..n : k < n /\ k \in T => k + 1 \in T
    BY <1>2
  <2> HIDE DEF T
  <2>2. \A k \in 0..n : k \in T
    BY <1>0, <1>1, <2>1, Climb
  <2> QED
    BY <1>0, <2>2
<1>4. PICK g : \A i \in 1..(n + 1) : g[i] = Decoded(s, g, i)
  BY <1>0, <1>3
<1> DEFINE f == [i \in 1..(n + 1) |-> g[i]]
<1>5. ASSUME NEW i \in 1..(n + 1) PROVE Decoded(s, f, i) = Decoded(s, g, i)
  <2>1. i <= n /\ Escape(s, i) => i + 3 \in 1..(n + 1) /\ f[i + 3] = g[i + 3]
    BY <1>0 DEF Escape
  <2>2. i <= n => i + 1 \in 1..(n + 1) /\ f[i + 1] = g[i + 1]
    BY <1>0
  <2> HIDE DEF f
  <2> QED
    BY <1>0, <2>1, <2>2 DEF Decoded
<1>6. f = [i \in 1..(n + 1) |-> Decoded(s, f, i)]
  BY <1>4, <1>5
<1> QED
  BY <1>6

LEMMA DecodeSteps ==
  ASSUME NEW s \in Seq(Nat)
  PROVE  \E f : /\ \A i \in 1..(Len(s) + 1) : f[i] = Decoded(s, f, i)
                /\ PercentDecode(s) = f[1]
<1> DEFINE f == CHOOSE g : g = [i \in 1..(Len(s) + 1) |-> Decoded(s, g, i)]
<1>1. f = [i \in 1..(Len(s) + 1) |-> Decoded(s, f, i)]
  BY DecodeTotal
<1>2. PercentDecode(s) = f[1]
  BY DEF PercentDecode, Decoded
<1> HIDE DEF f
<1> QED
  BY <1>1, <1>2

\* What FlattenSeq puts together, block by block.
Piecewise(S, n, bs, f) ==
  /\ \A k \in 1..n : f[k] \in Seq(S) /\ (k # 1 => f[k] = f[k - 1] \o bs[k])
  /\ f[1] = bs[1] /\ FlattenSeq(bs) = f[n]

LEMMA FlattenSteps ==
  ASSUME NEW S, NEW n \in Nat \ {0}, NEW bs \in [1..n -> Seq(S)], Len(bs) = n
  PROVE  \E f : Piecewise(S, n, bs, f)
<1> DEFINE Flat(f, k) == IF k = 1 THEN bs[k] ELSE f[k - 1] \o bs[k]
           Meets(g, m) == \A k \in 1..m : g[k] \in Seq(S) /\ g[k] = Flat(g, k)
           T == {m \in 0..n : \E g : Meets(g, m)}
<1>1. 0 \in T
  OBVIOUS
<1>2. ASSUME NEW m \in 0..n, m < n, m \in T PROVE m + 1 \in T
  <2>1. PICK g : Meets(g, m)
    BY <1>2
  <2> DEFINE h == [k \in 1..(m + 1) |-> IF k = m + 1 THEN Flat(g, k) ELSE g[k]]
  <2>0. m \in Nat /\ m + 1 \in 1..n
    BY <1>2
  <2>a. \A k \in 1..m : h[k] = g[k]
    BY <2>0
  <2>b. h[m + 1] = Flat(g, m + 1)
    BY <2>0
  <2> HIDE DEF h
  <2>2. ASSUME NEW k \in 1..m PROVE h[k] \in Seq(S) /\ h[k] = Flat(h, k)
    <3>1. k # 1 => k - 1 \in 1..m
      BY <2>0
    <3> QED
      BY <2>1, <2>a, <3>1
  <2>3. h[m + 1] \in Seq(S) /\ h[m + 1] = Flat(h, m + 1)
    <3>1. bs[m + 1] \in Seq(S)
      BY <2>0
    <3>2. CASE m = 0
      BY <2>b, <3>1, <3>2
    <3>3. CASE m # 0
      <4>1. m \in 1..m /\ (m + 1) - 1 = m /\ m + 1 # 1
        BY <2>0, <3>3
      <4>2. g[m] \in Seq(S) /\ h[m] = g[m]
        BY <2>1, <2>a, <4>1
      <4>3. h[m + 1] = g[m] \o bs[m + 1]
        BY <2>b, <4>1
      <4>4. g[m] \o bs[m + 1] \in Seq(S)
        BY <3>1, <4>2, ConcatProperties
      <4> QED
        BY <4>1, <4>2, <4>3, <4>4
    <3> QED
      BY <3>2, <3>3
  <2>4. \A k \in 1..(m + 1) : k \in 1..m \/ k = m + 1
    BY <2>0
  <2>5. Meets(h, m + 1)
    BY <2>2, <2>3, <2>4
  <2> QED
    BY <2>0, <2>5
<1>3. n \in T
  <2>1. \A k \in 0..n : k < n /\ k \in T => k + 1 \in T
    BY <1>2
  <2> HIDE DEF T
  <2>2. \A k \in 0..n : k \in T
    BY <1>1, <2>1, Climb
  <2> QED
    BY <2>2
<1>4. PICK g : Meets(g, n)
  BY <1>3
<1> DEFINE e == [k \in 1..n |-> g[k]]
           f == CHOOSE x : x = [k \in 1..n |-> Flat(x, k)]
<1>5. ASSUME NEW k \in 1..n PROVE e[k] = Flat(e, k)
  <2>1. k # 1 => k - 1 \in 1..n
    OBVIOUS
  <2> QED
    BY <1>4, <2>1
<1>6. e = [k \in 1..n |-> Flat(e, k)]
  BY <1>5
<1> HIDE DEF e, Flat
<1>e. \E x : x = [k \in 1..n |-> Flat(x, k)]
  BY <1>6
<1>7. f = [k \in 1..n |-> Flat(f, k)]
  BY <1>e
<1>8. FlattenSeq(bs) = f[n]
  BY DEF FlattenSeq, Flat
<1> HIDE DEF f
<1> USE DEF Flat
<1>9. \A k \in 1..n : f[k] \in Seq(S)
  <2> DEFINE U == {k \in 0..n : k = 0 \/ f[k] \in Seq(S)}
  <2>1. 0 \in U
    OBVIOUS
  <2>2. ASSUME NEW k \in 0..n, k < n, k \in U PROVE k + 1 \in U
    <3>1. k + 1 \in 1..n /\ bs[k + 1] \in Seq(S) /\ (k + 1) - 1 = k
      BY <2>2
    <3>2. f[k + 1] = IF k + 1 = 1 THEN bs[k + 1] ELSE f[k] \o bs[k + 1]
      BY <1>7, <3>1
    <3>3. k # 0 => f[k] \o bs[k + 1] \in Seq(S)
      BY <2>2, <3>1, ConcatProperties
    <3>4. f[k + 1] \in Seq(S)
      <4>1. CASE k = 0
        BY <3>1, <3>2, <4>1
      <4>2. CASE k # 0
        <5>1. k + 1 # 1
          BY <4>2
        <5> QED
          BY <3>2, <3>3, <4>2, <5>1
      <4> QED
        BY <4>1, <4>2
    <3> QED
      BY <3>1, <3>4
  <2>3. \A k \in 0..n : k < n /\ k \in U => k + 1 \in U
    BY <2>2
  <2>4. \A k \in 0..n : k \in U
    <3> HIDE DEF U
    <3> QED
      BY <2>1, <2>3, Climb
  <2> QED
    BY <2>4
<1>10. \A k \in 1..n : f[k] = IF k = 1 THEN bs[k] ELSE f[k - 1] \o bs[k]
  BY <1>7
<1>11. \A k \in 1..n : f[k] \in Seq(S) /\ (k # 1 => f[k] = f[k - 1] \o bs[k])
  BY <1>9, <1>10
<1>12. f[1] = bs[1]
  BY <1>10
<1> HIDE DEF Flat, Meets, T
<1> QED
  BY <1>8, <1>11, <1>12, Zenon DEF Piecewise

\* Where each block stands in the whole: at[k] is where block k + 1 begins, less one.
Places(S, n, bs, at) ==
  /\ at \in [0..n -> Nat]
  /\ at[0] = 0 /\ FlattenSeq(bs) \in Seq(S) /\ at[n] = Len(FlattenSeq(bs))
  /\ \A k \in 1..n : /\ at[k] = at[k - 1] + Len(bs[k]) /\ at[k] <= at[n]
                     /\ \A j \in 1..Len(bs[k]) : FlattenSeq(bs)[at[k - 1] + j] = bs[k][j]

LEMMA FlattenPlaces ==
  ASSUME NEW S, NEW n \in Nat \ {0}, NEW bs \in [1..n -> Seq(S)], Len(bs) = n
  PROVE  \E at : Places(S, n, bs, at)
<1>0. PICK f : Piecewise(S, n, bs, f)
  BY FlattenSteps
<1>1. /\ \A k \in 1..n : f[k] \in Seq(S) /\ (k # 1 => f[k] = f[k - 1] \o bs[k])
      /\ f[1] = bs[1] /\ FlattenSeq(bs) = f[n]
  BY <1>0 DEF Piecewise
<1> DEFINE s == FlattenSeq(bs)
           at == [k \in 0..n |-> IF k = 0 THEN 0 ELSE Len(f[k])]
<1>2. at \in [0..n -> Nat] /\ at[0] = 0 /\ \A k \in 1..n : at[k] = Len(f[k])
  BY <1>1
<1>3. s \in Seq(S) /\ at[n] = Len(s)
  BY <1>1, <1>2
<1> HIDE DEF s, at
<1>4. ASSUME NEW k \in 1..n
      PROVE  /\ at[k] = at[k - 1] + Len(bs[k])
             /\ \A j \in 1..at[k - 1] : k # 1 /\ f[k][j] = f[k - 1][j]
             /\ \A j \in 1..Len(bs[k]) : f[k][at[k - 1] + j] = bs[k][j]
  <2>0. bs[k] \in Seq(S) /\ Len(bs[k]) \in Nat
    OBVIOUS
  <2>1. CASE k = 1
    <3>1. f[k] = bs[k] /\ at[k - 1] = 0 /\ at[k] = Len(bs[k])
      BY <1>1, <1>2, <2>1
    <3> QED
      BY <2>0, <3>1
  <2>2. CASE k # 1
    <3>0. k - 1 \in 1..n
      BY <2>2
    <3>1. k - 1 \in 1..n /\ f[k - 1] \in Seq(S) /\ f[k] = f[k - 1] \o bs[k]
      BY <1>1, <2>2, <3>0
    <3>2. at[k - 1] = Len(f[k - 1]) /\ at[k - 1] \in Nat
      BY <1>2, <3>1
    <3>3. /\ Len(f[k]) = Len(f[k - 1]) + Len(bs[k])
          /\ \A j \in 1..(Len(f[k - 1]) + Len(bs[k])) :
               f[k][j] = IF j <= Len(f[k - 1]) THEN f[k - 1][j] ELSE bs[k][j - Len(f[k - 1])]
      BY <2>0, <3>1, ConcatProperties
    <3>4. ASSUME NEW j \in 1..at[k - 1] PROVE f[k][j] = f[k - 1][j]
      BY <2>0, <3>2, <3>3, SMTT(30)
    <3>5. ASSUME NEW j \in 1..Len(bs[k]) PROVE f[k][at[k - 1] + j] = bs[k][j]
      <4>1. at[k - 1] + j \in 1..(Len(f[k - 1]) + Len(bs[k])) /\ ~(at[k - 1] + j <= Len(f[k - 1]))
            /\ (at[k - 1] + j) - Len(f[k - 1]) = j
        BY <2>0, <3>2
      <4> QED
        BY <3>3, <4>1
    <3> QED
      BY <1>2, <2>2, <3>2, <3>3, <3>4, <3>5
  <2> QED
    BY <2>1, <2>2
<1>5. \A k \in 1..n : at[k] <= at[n] /\ \A j \in 1..at[k] : s[j] = f[k][j]
  <2> DEFINE Ends(k) == at[k] <= at[n] /\ \A j \in 1..at[k] : s[j] = f[k][j]
             U == {m \in 0..(n - 1) : Ends(n - m)}
  <2>1. 0 \in U
    BY <1>1, <1>2 DEF s
  <2>2. ASSUME NEW m \in 0..(n - 1), m < n - 1, m \in U PROVE m + 1 \in U
    <3> DEFINE k == n - m
    <3>1. k \in 1..n /\ k - 1 \in 1..n /\ n - (m + 1) = k - 1 /\ m + 1 \in 0..(n - 1)
      BY <2>2
    <3>2. Ends(k)
      BY <2>2
    <3>3. at[k] = at[k - 1] + Len(bs[k]) /\ at[k - 1] \in Nat /\ at[n] \in Nat /\ Len(bs[k]) \in Nat
      BY <1>2, <1>4, <3>1
    <3> HIDE DEF k
    <3>4. at[k - 1] <= at[n] /\ \A j \in 1..at[k - 1] : j \in 1..at[k]
      BY <3>2, <3>3
    <3>5. Ends(k - 1)
      BY <1>4, <3>1, <3>2, <3>4
    <3> QED
      BY <3>1, <3>5
  <2>3. \A m \in 0..(n - 1) : m < n - 1 /\ m \in U => m + 1 \in U
    BY <2>2
  <2>4. \A m \in 0..(n - 1) : m \in U
    <3>1. n - 1 \in Nat
      OBVIOUS
    <3> HIDE DEF U
    <3> QED
      BY <2>1, <2>3, <3>1, Climb
  <2>5. ASSUME NEW k \in 1..n PROVE Ends(k)
    <3>1. n - k \in 0..(n - 1) /\ n - (n - k) = k
      OBVIOUS
    <3> QED
      BY <2>4, <3>1
  <2> QED
    BY <2>5
<1>6. ASSUME NEW k \in 1..n, NEW j \in 1..Len(bs[k]) PROVE s[at[k - 1] + j] = bs[k][j]
  <2>1. k - 1 \in 0..n /\ Len(bs[k]) \in Nat
    OBVIOUS
  <2>2. at[k - 1] \in Nat /\ at[k] = at[k - 1] + Len(bs[k])
    BY <1>2, <1>4, <2>1
  <2>3. at[k - 1] + j \in 1..at[k]
    BY <2>1, <2>2
  <2>4. s[at[k - 1] + j] = f[k][at[k - 1] + j]
    BY <1>5, <2>3
  <2> QED
    BY <1>4, <2>4
<1>7. \A k \in 1..n : /\ at[k] = at[k - 1] + Len(bs[k]) /\ at[k] <= at[n]
                     /\ \A j \in 1..Len(bs[k]) : s[at[k - 1] + j] = bs[k][j]
  BY <1>4, <1>5, <1>6
<1>8. Places(S, n, bs, at)
  BY <1>2, <1>3, <1>7 DEF s, Places
<1> QED
  BY <1>8

\* One byte as a server sends it, and what the client can tell from it.
Block(b, i, which, base) ==
  IF i \in which THEN <<Percent, HexDigit(b \div 16, base), HexDigit(b % 16, base)>> ELSE <<b>>
Spells(t, b, i, which) ==
  /\ t \in Seq(Nat) /\ Len(t) = IF i \in which THEN 3 ELSE 1
  /\ i \in which => /\ t[1] = Percent /\ Hex(t[2]) \in Nat /\ Hex(t[3]) \in Nat
                     /\ 16 * Hex(t[2]) + Hex(t[3]) = b
  /\ i \notin which => t[1] = b

LEMMA BlockSpells ==
  ASSUME NEW b \in 0..127, NEW i, NEW which, NEW base \in {65, 97}
  PROVE  Spells(Block(b, i, which, base), b, i, which)
<1>1. b \div 16 \in 0..15 /\ b % 16 \in 0..15 /\ 16 * (b \div 16) + (b % 16) = b
  OBVIOUS
<1>2. CASE i \in which
  <2> DEFINE hi == HexDigit(b \div 16, base)
             lo == HexDigit(b % 16, base)
             t == <<Percent, hi, lo>>
  <2>1. Hex(hi) = b \div 16 /\ Hex(lo) = b % 16 /\ hi \in Nat /\ lo \in Nat
    BY <1>1, HexRead
  <2>2. Block(b, i, which, base) = t
    BY <1>2 DEF Block
  <2> HIDE DEF hi, lo
  <2>3. t \in Seq(Nat) /\ Len(t) = 3 /\ t[1] = Percent /\ t[2] = hi /\ t[3] = lo
    BY <2>1 DEF Percent
  <2> HIDE DEF t
  <2>4. Hex(t[2]) \in Nat /\ Hex(t[3]) \in Nat /\ 16 * Hex(t[2]) + Hex(t[3]) = b
    BY <1>1, <2>1, <2>3
  <2> QED
    BY <1>2, <2>2, <2>3, <2>4 DEF Spells
<1>3. CASE i \notin which
  <2>1. Block(b, i, which, base) = <<b>> /\ b \in Nat
    BY <1>3 DEF Block
  <2> QED
    BY <1>3, <2>1 DEF Spells
<1> QED
  BY <1>2, <1>3

\* A name is read as it was meant, however it was escaped.
LEMMA DecodeEscaped ==
  ASSUME NEW name \in Seq(0..127), NEW base \in {65, 97}, NEW which,
         \A i \in 1..Len(name) : name[i] = Percent => i \in which
  PROVE  PercentDecode(Escaped(name, which, base)) = name
<1> DEFINE n == Len(name)
           bs == [i \in 1..n |-> Block(name[i], i, which, base)]
           s == FlattenSeq(bs)
<1>n. n \in Nat /\ \A i \in 1..n : name[i] \in 0..127
  BY LenProperties, ElementOfSeq
<1>e. Escaped(name, which, base) = s
  BY DEF Escaped, Block
<1>p. \A i \in 1..n : name[i] = Percent => i \in which
  OBVIOUS
<1>b. ASSUME NEW k \in 1..n PROVE Spells(bs[k], name[k], k, which)
  <2>1. bs[k] = Block(name[k], k, which, base) /\ name[k] \in 0..127
    BY <1>n
  <2> HIDE DEF bs
  <2> DEFINE b == name[k]
  <2>b. b \in 0..127 /\ base \in {65, 97}
    BY <2>1
  <2>2. Spells(Block(b, k, which, base), b, k, which)
    <3> HIDE DEF b
    <3> QED
      BY ONLY <2>b, BlockSpells
  <2> QED
    BY <2>1, <2>2
<1>l. Len(bs) = n /\ bs \in [1..n -> Seq(Nat)]
  <2>1. \A k \in 1..n : bs[k] \in Seq(Nat)
    BY <1>b DEF Spells
  <2>2. bs \in [1..n -> Seq(Nat)]
    BY <2>1
  <2> QED
    BY <1>n, <2>2
<1> HIDE DEF n, bs
<1>1. CASE n = 0
  <2>1. name = <<>>
    BY <1>1 DEF n
  <2>2. s = bs /\ Len(bs) = 0 /\ bs \in Seq(Nat)
    <3>1. Len(bs) = 0 /\ bs = <<>>
      BY <1>1, <1>l
    <3> QED
      BY <3>1 DEF FlattenSeq
  <2>3. s \in Seq(Nat) /\ Len(s) = 0
    BY <2>2
  <2> HIDE DEF s
  <2>4. PICK f : /\ \A i \in 1..(Len(s) + 1) : f[i] = Decoded(s, f, i)
                 /\ PercentDecode(s) = f[1]
    BY ONLY <2>3, DecodeSteps
  <2>5. f[1] = <<>>
    BY <2>3, <2>4 DEF Decoded
  <2> QED
    BY <1>e, <2>1, <2>4, <2>5
<1>2. CASE n # 0
  <2>n. n \in Nat \ {0}
    BY <1>n, <1>2
  <2>p. PICK at : Places(Nat, n, bs, at)
    BY <1>l, <2>n, FlattenPlaces
  <2>1. /\ at \in [0..n -> Nat] /\ at[0] = 0 /\ s \in Seq(Nat) /\ at[n] = Len(s)
        /\ \A k \in 1..n : /\ at[k] = at[k - 1] + Len(bs[k]) /\ at[k] <= at[n]
                           /\ \A j \in 1..Len(bs[k]) : s[at[k - 1] + j] = bs[k][j]
    BY <2>p DEF Places
  <2> HIDE DEF s
  <2>2. PICK f : /\ \A i \in 1..(Len(s) + 1) : f[i] = Decoded(s, f, i)
                 /\ PercentDecode(s) = f[1]
    BY <2>1, DecodeSteps
  <2> DEFINE Reads(k) == f[at[k] + 1] = SubSeq(name, k + 1, n)
             U == {m \in 0..n : Reads(n - m)}
  <2>3. Reads(n)
    <3>1. SubSeq(name, n + 1, n) = <<>>
      BY <1>n, SubSeqEmpty
    <3>2. at[n] + 1 \in 1..(Len(s) + 1) /\ at[n] + 1 > Len(s)
      BY <2>1, <2>n
    <3>3. f[at[n] + 1] = <<>>
      BY <2>2, <3>2 DEF Decoded
    <3> QED
      BY <3>1, <3>3
  <2>4. ASSUME NEW k \in 1..n, Reads(k) PROVE Reads(k - 1)
    <3> DEFINE i == at[k - 1] + 1
    <3>a. k \in Nat /\ n \in Nat /\ 1 <= k /\ k <= n /\ k - 1 \in 0..n /\ k \in 0..n /\ n \in 0..n
      BY <1>n
    <3>t. at[k - 1] \in Nat /\ at[k] \in Nat /\ at[n] \in Nat /\ Len(bs[k]) \in Nat
      BY <2>1, <3>a, <1>l, LenProperties
    <3>1. /\ at[k] = at[k - 1] + Len(bs[k]) /\ at[k] <= Len(s)
          /\ \A j \in 1..Len(bs[k]) : s[at[k - 1] + j] = bs[k][j]
      BY <2>1
    <3>2. SubSeq(name, k, n) = <<name[k]>> \o SubSeq(name, k + 1, n)
      <4>1. k \in 1..Len(name) /\ n \in k..Len(name)
        BY <3>a DEF n
      <4> QED
        BY <4>1, SubSeqRecursiveFirst
    <3>b. Spells(bs[k], name[k], k, which)
      BY <1>b
    <3>3. CASE k \in which
      <4>1. Len(bs[k]) = 3
        BY <3>b, <3>3 DEF Spells
      <4>2. /\ i \in 1..(Len(s) + 1) /\ i + 2 <= Len(s) /\ ~(i > Len(s)) /\ i + 3 = at[k] + 1
            /\ i = at[k - 1] + 1 /\ i + 1 = at[k - 1] + 2 /\ i + 2 = at[k - 1] + 3
        <5> DEFINE a == at[k - 1]
                   b == at[k]
                   l == Len(s)
        <5>1. a \in Nat /\ b \in Nat /\ l \in Nat /\ b = a + 3 /\ b <= l
          BY <2>1, <3>t, <3>1, <4>1
        <5> HIDE DEF a, b, l
        <5>2. /\ a + 1 \in 1..(l + 1) /\ a + 1 + 2 <= l /\ ~(a + 1 > l) /\ a + 1 + 3 = b + 1
              /\ a + 1 + 1 = a + 2 /\ a + 1 + 2 = a + 3
          BY <5>1
        <5> QED
          BY <5>2 DEF a, b, l
      <4>3. s[i] = bs[k][1] /\ s[i + 1] = bs[k][2] /\ s[i + 2] = bs[k][3]
        BY <3>1, <4>1, <4>2
      <4> HIDE DEF i
      <4>4. s[i] = Percent /\ Hex(s[i + 1]) \in Nat /\ Hex(s[i + 2]) \in Nat
            /\ 16 * Hex(s[i + 1]) + Hex(s[i + 2]) = name[k]
        BY <3>b, <3>3, <4>3 DEF Spells
      <4>5. Escape(s, i)
        BY <4>2, <4>4 DEF Escape
      <4>6. f[i] = <<name[k]>> \o f[i + 3]
        BY <2>2, <4>2, <4>4, <4>5 DEF Decoded
      <4>7. f[at[k - 1] + 1] = <<name[k]>> \o SubSeq(name, k + 1, n)
        BY <2>4, <4>2, <4>6
      <4> QED
        BY <3>a, <3>2, <4>7
    <3>4. CASE k \notin which
      <4>1. Len(bs[k]) = 1
        BY <3>b, <3>4 DEF Spells
      <4>2. i \in 1..(Len(s) + 1) /\ ~(i > Len(s)) /\ i + 1 = at[k] + 1 /\ i = at[k - 1] + 1
        <5>1. Len(s) \in Nat
          BY <2>1, <3>t
        <5> QED
          BY <3>t, <3>1, <4>1, <5>1
      <4>3. s[i] = bs[k][1]
        BY <3>1, <4>1, <4>2
      <4> HIDE DEF i
      <4>4. s[i] = name[k] /\ ~Escape(s, i)
        BY <1>p, <3>b, <3>4, <4>3 DEF Escape, Spells
      <4>5. f[i] = <<name[k]>> \o f[i + 1]
        BY <2>2, <4>2, <4>4 DEF Decoded
      <4>7. f[at[k - 1] + 1] = <<name[k]>> \o SubSeq(name, k + 1, n)
        BY <2>4, <4>2, <4>5
      <4> QED
        BY <3>a, <3>2, <4>7
    <3> QED
      BY <3>3, <3>4
  <2> HIDE DEF Reads
  <2>5. 0 \in U /\ \A m \in 0..n : m < n /\ m \in U => m + 1 \in U
    <3>1. n - 0 = n /\ 0 \in 0..n
      BY <1>n
    <3>2. ASSUME NEW m \in 0..n, m < n, m \in U PROVE m + 1 \in U
      <4>1. n - m \in 1..n /\ n - (m + 1) = (n - m) - 1 /\ m + 1 \in 0..n
        BY <1>n, <3>2
      <4>2. Reads((n - m) - 1)
        BY <2>4, <3>2, <4>1
      <4> QED
        BY <4>1, <4>2
    <3> QED
      BY <2>3, <3>1, <3>2
  <2>6. Reads(n - n)
    <3> HIDE DEF U
    <3>0. n \in Nat /\ 0 \in U
      BY <1>n, <2>5
    <3>1. \A m \in 0..n : m < n /\ m \in U => m + 1 \in U
      BY <2>5
    <3>a. \A m \in 0..n : m \in U
      BY <3>0, <3>1, Climb
    <3>2. n \in U
      BY <3>0, <3>a
    <3> QED
      BY <3>2 DEF U
  <2>7. f[1] = SubSeq(name, 1, n)
    <3>1. n - n = 0 /\ 0 + 1 = 1
      BY <1>n
    <3> QED
      BY <2>1, <2>6, <3>1 DEF Reads
  <2>8. SubSeq(name, 1, n) = name
    BY SubSeqFull DEF n
  <2> QED
    BY <1>e, <2>2, <2>7, <2>8
<1> QED
  BY <1>1, <1>2

\* The bytes that end no part of a header and are no blank.
Clean == (33..126) \ {Semicolon}

LEMMA CleanBytes ==
  ASSUME NEW b
  PROVE  b \in Clean <=> b \in Nat /\ b > 32 /\ b < 127 /\ b # 59
BY DEF Clean, Semicolon

\* What a server sends for a name it has escaped as it must.
LEMMA EscapedClean ==
  ASSUME NEW name \in Seq(0..127), NEW base \in {65, 97}, NEW which,
         \A i \in 1..Len(name) : name[i] \notin Verbatim => i \in which
  PROVE  Escaped(name, which, base) \in Seq(Clean)
<1> DEFINE n == Len(name)
           bs == [i \in 1..n |-> Block(name[i], i, which, base)]
<1>n. n \in Nat /\ \A i \in 1..n : name[i] \in 0..127
  BY LenProperties, ElementOfSeq
<1>e. Escaped(name, which, base) = FlattenSeq(bs)
  BY DEF Escaped, Block
<1>d. ASSUME NEW d \in 0..15 PROVE HexDigit(d, base) \in Clean
  BY CleanBytes DEF HexDigit
<1>b. ASSUME NEW k \in 1..n PROVE bs[k] \in Seq(Clean)
  <2>1. bs[k] = Block(name[k], k, which, base) /\ name[k] \in 0..127
    BY <1>n
  <2>2. CASE k \in which
    <3>1. \A b \in 0..127 : b \div 16 \in 0..15 /\ b % 16 \in 0..15
      OBVIOUS
    <3>2. name[k] \div 16 \in 0..15 /\ name[k] % 16 \in 0..15
      BY <2>1, <3>1
    <3>3. HexDigit(name[k] \div 16, base) \in Clean /\ HexDigit(name[k] % 16, base) \in Clean
      BY <1>d, <3>2
    <3>4. Percent \in Clean
      BY CleanBytes DEF Percent
    <3> QED
      BY <2>1, <2>2, <3>3, <3>4 DEF Block
  <2>3. CASE k \notin which
    <3>1. name[k] \in Clean
      BY <2>3 DEF Verbatim, Clean
    <3> QED
      BY <2>1, <2>3, <3>1 DEF Block
  <2> QED
    BY <2>2, <2>3
<1>l. Len(bs) = n /\ bs \in [1..n -> Seq(Clean)]
  BY <1>b, <1>n
<1> HIDE DEF n, bs
<1>1. CASE n = 0
  <2>1. Len(bs) = 0 /\ bs = <<>>
    BY <1>1, <1>l
  <2>2. FlattenSeq(bs) = <<>>
    BY <2>1 DEF FlattenSeq
  <2> QED
    BY <1>e, <2>2
<1>2. CASE n # 0
  <2>n. n \in Nat \ {0}
    BY <1>n, <1>2
  <2>1. PICK at : Places(Clean, n, bs, at)
    BY <1>l, <2>n, FlattenPlaces
  <2> QED
    BY <1>e, <2>1 DEF Places
<1> QED
  BY <1>1, <1>2

\* The lowest and the highest of a set.
LEMMA LowestIs ==
  ASSUME NEW T \in SUBSET Int, NEW m \in T, \A x \in T : m <= x
  PROVE  Min(T) = m
<1>1. m \in T /\ m \in Int /\ \A y \in T : m <= y
  OBVIOUS
<1>2. Min(T) \in T /\ \A y \in T : Min(T) <= y
  BY <1>1 DEF Min
<1>3. Min(T) \in Int /\ Min(T) <= m /\ m <= Min(T)
  BY <1>1, <1>2
<1> QED
  BY <1>1, <1>3

LEMMA HighestIs ==
  ASSUME NEW T \in SUBSET Int, NEW m \in T, \A x \in T : m >= x
  PROVE  Max(T) = m
<1>1. m \in T /\ m \in Int /\ \A y \in T : m >= y
  OBVIOUS
<1>2. Max(T) \in T /\ \A y \in T : Max(T) >= y
  BY <1>1 DEF Max
<1>3. Max(T) \in Int /\ Max(T) <= m /\ m <= Max(T)
  BY <1>1, <1>2
<1> QED
  BY <1>1, <1>3

\* A header whose second part is a `filename*`: split and trimmed, it names what
\* its bytes decode to.
LEMMA HeaderRead ==
  ASSUME NEW s \in Seq(Clean)
  PROVE  SuggestedName(Disposition \o s) = {PercentDecode(s)}
<1> DEFINE d == Disposition
           v == d \o s
           n == Len(s)
<1>n. n \in Nat /\ \A i \in 1..n : s[i] \in Clean
  BY LenProperties, ElementOfSeq
<1>d. /\ d \in Seq(Nat) /\ Len(d) = 7
      /\ d[1] = 131 /\ d[2] = 59 /\ d[3] = 32 /\ d[4] = 128 /\ d[5] = 130
      /\ d[6] = 39 /\ d[7] = 39
  BY DEF Disposition, Attachment, Semicolon, Star, Charset, Quote
<1>s. s \in Seq(Nat)
  <2>1. \A i \in 1..Len(s) : s[i] \in Nat
    BY <1>n, CleanBytes
  <2>2. SubSeq(s, 1, Len(s)) \in Seq(Nat)
    BY <1>n, <2>1, SubSeqProperties
  <2> QED
    BY <2>2, SubSeqFull
<1> HIDE DEF d
<1>1. /\ v \in Seq(Nat) /\ Len(v) = 7 + n
      /\ \A i \in 1..7 : v[i] = d[i]
      /\ \A i \in 1..n : v[7 + i] = s[i]
  <2>1. /\ v \in Seq(Nat) /\ Len(v) = Len(d) + Len(s)
        /\ \A i \in 1..(Len(d) + Len(s)) : v[i] = IF i <= Len(d) THEN d[i] ELSE s[i - Len(d)]
    <3>1. d \in Seq(Nat) /\ s \in Seq(Nat)
      BY <1>d, <1>s
    <3> HIDE DEF n
    <3> QED
      BY ONLY <3>1, ConcatProperties
  <2> HIDE DEF v, n
  <2>2. ASSUME NEW i \in 1..7 PROVE v[i] = d[i]
    <3>1. i \in 1..(Len(d) + Len(s)) /\ i <= Len(d)
      BY <1>n, <1>d DEF n
    <3> QED
      BY <2>1, <3>1
  <2>3. ASSUME NEW i \in 1..n PROVE v[7 + i] = s[i]
    <3>1. 7 + i \in 1..(Len(d) + Len(s)) /\ ~(7 + i <= Len(d)) /\ (7 + i) - Len(d) = i
      BY <1>n, <1>d DEF n
    <3> QED
      BY <2>1, <3>1
  <2> QED
    BY <1>d, <2>1, <2>2, <2>3 DEF n
<1> HIDE DEF v, n
<1>v. /\ v \in Seq(Nat) /\ Len(v) = 7 + n
      /\ v[1] = 131 /\ v[2] = 59 /\ v[3] = 32 /\ v[4] = 128 /\ v[5] = 130
      /\ v[6] = 39 /\ v[7] = 39
      /\ \A i \in 1..n : v[7 + i] = s[i]
  BY <1>d, <1>1
<1>w. ASSUME NEW i \in 8..(7 + n) PROVE v[i] \in Nat /\ v[i] > 32 /\ v[i] < 127 /\ v[i] # 59
  <2>1. i - 7 \in 1..n /\ 7 + (i - 7) = i
    BY <1>n
  <2>2. v[i] = s[i - 7] /\ s[i - 7] \in Clean
    <3> DEFINE j == i - 7
    <3>1. j \in 1..n /\ 7 + j = i
      BY <2>1
    <3> HIDE DEF j
    <3>2. v[7 + j] = s[j] /\ s[j] \in Clean
      BY <1>n, <1>v, <3>1
    <3> QED
      BY <3>1, <3>2 DEF j
  <2> QED
    BY <2>2, CleanBytes
<1>c. \A i \in 1..(7 + n) : i \in {1, 2, 3, 4, 5, 6, 7} \/ i \in 8..(7 + n)
  BY <1>n
<1>x. Readable(v)
  <2>1. ASSUME NEW i \in 1..(7 + n) PROVE v[i] \in {9} \cup (32..126) \cup (128..131)
    <3>1. ASSUME i \in 8..(7 + n) PROVE v[i] \in 32..126
      <4> DEFINE b == v[i]
      <4>1. b \in Nat /\ b > 32 /\ b < 127
        BY <1>w, <3>1
      <4> HIDE DEF b
      <4>2. b \in 32..126
        BY <4>1
      <4> QED
        BY <4>2 DEF b
    <3>2. /\ v[1] \in 128..131 /\ v[2] \in 32..126 /\ v[3] \in 32..126 /\ v[4] \in 128..131
          /\ v[5] \in 128..131 /\ v[6] \in 32..126 /\ v[7] \in 32..126
      BY <1>v
    <3> QED
      BY <1>c, <3>1, <3>2
  <2> QED
    BY <1>v, <2>1 DEF Readable, Star, Attachment
<1>2. \A i \in 1..Len(v) : v[i] = Semicolon <=> i = 2
  <2>1. ASSUME NEW i \in 1..(7 + n) PROVE v[i] = 59 <=> i = 2
    <3>1. ASSUME i \in 8..(7 + n) PROVE v[i] # 59 /\ i # 2
      <4>1. i >= 8
        BY <1>n, <3>1
      <4> QED
        BY <1>w, <3>1, <4>1
    <3>2. v[1] # 59 /\ v[3] # 59 /\ v[4] # 59 /\ v[5] # 59 /\ v[6] # 59 /\ v[7] # 59
      BY <1>v
    <3>3. v[2] = 59
      BY <1>v
    <3> QED
      BY <1>c, <3>1, <3>2, <3>3
  <2> QED
    BY <1>v, <2>1 DEF Semicolon
<1>3. Begins(v) = {1, 3}
  <2>1. ASSUME NEW a \in 1..(Len(v) + 1) PROVE (a = 1 \/ v[a - 1] = Semicolon) <=> a \in {1, 3}
    <3>1. CASE a = 1
      BY <3>1
    <3>2. CASE a # 1
      <4>1. a - 1 \in 1..Len(v)
        BY <1>n, <1>v, <3>2
      <4> QED
        BY <1>2, <3>2, <4>1
    <3> QED
      BY <3>1, <3>2
  <2>2. 1 \in 1..(Len(v) + 1) /\ 3 \in 1..(Len(v) + 1)
    BY <1>n, <1>v
  <2> QED
    BY <2>1, <2>2 DEF Begins
<1>4. NamedBy(Trim(Field(v, 1), Blank)) = {}
  <2>1. Min({b \in 1..(Len(v) + 1) : b = Len(v) + 1 \/ v[b] = Semicolon}) = 2
    <3> DEFINE T == {b \in 1..(Len(v) + 1) : b = Len(v) + 1 \/ v[b] = Semicolon}
    <3>1. T \in SUBSET Int /\ 2 \in T
      BY <1>n, <1>v, <1>2
    <3>2. ASSUME NEW x \in T PROVE 2 <= x
      <4>1. x = Len(v) + 1 \/ (x \in 1..Len(v) /\ v[x] = Semicolon)
        BY <1>n, <1>v
      <4> QED
        BY <1>n, <1>v, <1>2, <4>1
    <3> HIDE DEF T
    <3>3. Min(T) = 2
      BY <3>1, <3>2, LowestIs
    <3> QED
      BY <3>3 DEF T
  <2>2. Field(v, 1) = <<131>>
    <3>1. SubSeq(v, 1, 1) = <<v[1]>>
      <4>1. 1 \in 1..Len(v) /\ 1 \in 1..Len(v)
        BY <1>n, <1>v
      <4>2. SubSeq(v, 1, 1) = SubSeq(v, 1, 1 - 1) \o <<v[1]>>
        BY <1>v, <4>1, SubSeqRecursiveSecond
      <4>3. SubSeq(v, 1, 1 - 1) = <<>>
        BY SubSeqEmpty
      <4>4. <<v[1]>> \in Seq(Nat)
        BY <1>v
      <4> QED
        BY <4>2, <4>3, <4>4, ConcatEmptySeq
    <3>2. Field(v, 1) = SubSeq(v, 1, 2 - 1)
      BY <2>1, Zenon DEF Field
    <3> QED
      BY <1>v, <3>1, <3>2
  <2>3. Outside(<<131>>, Blank) = {1}
    BY DEF Outside, Blank
  <2>4. Min({1}) = 1 /\ Max({1}) = 1
    <3> DEFINE T == {1}
    <3>1. T \in SUBSET Int /\ 1 \in T /\ \A x \in T : 1 <= x /\ 1 >= x
      OBVIOUS
    <3> HIDE DEF T
    <3>2. Min(T) = 1 /\ Max(T) = 1
      BY <3>1, LowestIs, HighestIs
    <3> QED
      BY <3>2 DEF T
  <2>5. Trim(<<131>>, Blank) = <<131>>
    <3>1. SubSeq(<<131>>, 1, 1) = <<131>>
      <4>1. <<131>> \in Seq(Nat) /\ Len(<<131>>) = 1
        OBVIOUS
      <4> QED
        BY <4>1, SubSeqFull
    <3>2. Trim(<<131>>, Blank) = SubSeq(<<131>>, 1, 1)
      BY <2>3, <2>4, Zenon DEF Trim
    <3> QED
      BY <3>1, <3>2
  <2> QED
    BY <2>2, <2>5 DEF NamedBy, Star, Plain
<1>5. NamedBy(Trim(Field(v, 3), Blank)) = {PercentDecode(s)}
  <2> DEFINE g == SubSeq(v, 3, Len(v))
             f == SubSeq(g, 2, Len(g))
  <2>1. Min({b \in 3..(Len(v) + 1) : b = Len(v) + 1 \/ v[b] = Semicolon}) = Len(v) + 1
    <3>1. {b \in 3..(Len(v) + 1) : b = Len(v) + 1 \/ v[b] = Semicolon} = {Len(v) + 1}
      <4>1. ASSUME NEW b \in 3..(Len(v) + 1), v[b] = Semicolon PROVE b = Len(v) + 1
        <5>1. b \in 1..Len(v) \/ b = Len(v) + 1
          BY <1>n, <1>v
        <5> QED
          BY <1>2, <4>1, <5>1
      <4> QED
        BY <1>n, <1>v, <4>1, SMTT(30)
    <3> DEFINE m == Len(v) + 1
               T == {m}
    <3>2. T \in SUBSET Int /\ m \in T /\ \A x \in T : m <= x
      BY <1>n, <1>v
    <3> HIDE DEF T, m
    <3>3. Min(T) = m
      BY <3>2, LowestIs
    <3> QED
      BY <3>1, <3>3 DEF T, m
  <2>2. Field(v, 3) = g
    <3> DEFINE m == Min({b \in 3..(Len(v) + 1) : b = Len(v) + 1 \/ v[b] = Semicolon})
    <3>1. Field(v, 3) = SubSeq(v, 3, m - 1)
      BY DEF Field
    <3>2. m = Len(v) + 1
      BY <2>1
    <3> HIDE DEF m
    <3>3. m - 1 = Len(v)
      BY <1>n, <1>v, <3>2
    <3> QED
      BY <3>1, <3>3
  <2>3. /\ g \in Seq(Nat) /\ Len(g) = 5 + n
        /\ \A i \in 1..(5 + n) : g[i] = v[i + 2]
    <3>1. /\ g \in Seq(Nat) /\ Len(g) = Len(v) - 3 + 1
          /\ \A i \in 1..(Len(v) - 3 + 1) : g[i] = v[3 + i - 1]
      <4>1. 3 \in Int /\ Len(v) \in Int /\ 3 <= Len(v)
        BY <1>n, <1>v
      <4>2. \A i \in 3..Len(v) : v[i] \in Nat
        <5>1. v \in Seq(Nat)
          BY <1>v
        <5>2. \A i \in 1..Len(v) : v[i] \in Nat
          BY ONLY <5>1
        <5>3. \A i \in 3..Len(v) : i \in 1..Len(v)
          BY ONLY <4>1
        <5> QED
          BY ONLY <5>2, <5>3
      <4>3. /\ SubSeq(v, 3, Len(v)) \in Seq(Nat)
            /\ Len(SubSeq(v, 3, Len(v))) = IF 3 <= Len(v) THEN Len(v) - 3 + 1 ELSE 0
            /\ \A i \in 1..(Len(v) - 3 + 1) : SubSeq(v, 3, Len(v))[i] = v[3 + i - 1]
        BY ONLY <4>1, <4>2, SubSeqProperties
      <4> QED
        BY <4>1, <4>3
    <3> HIDE DEF g
    <3>2. Len(v) - 3 + 1 = 5 + n
      BY <1>n, <1>v
    <3>3. ASSUME NEW i \in 1..(5 + n) PROVE 3 + i - 1 = i + 2
      BY <1>n
    <3> QED
      BY <3>1, <3>2, <3>3
  <2> HIDE DEF g
  <2>4. /\ f \in Seq(Nat) /\ Len(f) = 4 + n
        /\ \A i \in 1..(4 + n) : f[i] = g[i + 1]
    BY <1>n, <2>3
  <2> HIDE DEF f
  <2>5. \A i \in 1..(4 + n) : f[i] = v[i + 3]
    <3>1. ASSUME NEW i \in 1..(4 + n) PROVE f[i] = v[i + 3]
      <4>1. i + 1 \in 1..(5 + n) /\ (i + 1) + 2 = i + 3
        BY <1>n
      <4> QED
        BY <2>3, <2>4, <4>1
    <3> QED
      BY <3>1
  <2>6. Outside(g, Blank) = 2..(5 + n)
    <3>1. ASSUME NEW i \in 1..(5 + n) PROVE g[i] \notin Blank <=> i # 1
      <4>1. g[i] = v[i + 2] /\ i + 2 \in 1..(7 + n)
        BY <1>n, <2>3
      <4>2. v[i + 2] \in {9, 32} <=> i + 2 = 3
        <5>1. CASE i + 2 \in 8..(7 + n)
          BY <1>w, <5>1
        <5>2. CASE i + 2 \in {1, 2, 3, 4, 5, 6, 7}
          <6>1. i + 2 # 1 /\ i + 2 # 2
            BY <1>n
          <6> QED
            BY <1>v, <5>2, <6>1, SMTT(30)
        <5> QED
          BY <1>c, <4>1, <5>1, <5>2
      <4>3. i + 2 = 3 <=> i = 1
        BY <1>n
      <4> QED
        BY <4>1, <4>2, <4>3 DEF Blank
    <3>2. Outside(g, Blank) = {i \in 1..(5 + n) : i # 1}
      BY <2>3, <3>1 DEF Outside
    <3> QED
      BY <1>n, <3>2
  <2>7. Min(2..(5 + n)) = 2 /\ Max(2..(5 + n)) = 5 + n
    <3>1. /\ 2..(5 + n) \in SUBSET Int /\ 2 \in 2..(5 + n) /\ 5 + n \in 2..(5 + n)
          /\ \A x \in 2..(5 + n) : 2 <= x /\ 5 + n >= x
      BY <1>n
    <3> QED
      BY <3>1, LowestIs, HighestIs
  <2>8. Trim(g, Blank) = f
    <3>1. 2 \in 2..(5 + n)
      BY <1>n
    <3> QED
      BY <2>3, <2>6, <2>7, <3>1 DEF Trim, f
  <2>9. f # <<>> /\ f[1] = Star /\ f[2] = 130 /\ f[3] = Quote /\ f[4] = Quote
    BY <1>n, <1>v, <2>4, <2>5 DEF Star, Quote
  <2>10. Min(Splits(f)) = 3 /\ Splits(f) # {}
    <3>1. 3 \in Splits(f) /\ Splits(f) \in SUBSET Int
      BY <1>n, <2>4, <2>9 DEF Splits
    <3>2. ASSUME NEW x \in Splits(f) PROVE 3 <= x
      <4>1. x \in 2..(Len(f) - 1) /\ f[x] = Quote
        BY DEF Splits
      <4>2. x # 2
        BY <2>9, <4>1 DEF Quote
      <4> QED
        BY <1>n, <2>4, <4>1, <4>2
    <3> QED
      BY <3>1, <3>2, LowestIs
  <2>11. From(f, 5) = s
    <3>1. /\ From(f, 5) \in Seq(Nat) /\ Len(From(f, 5)) = n
          /\ \A i \in 1..n : From(f, 5)[i] = f[i + 4]
      BY <1>n, <2>4, SMTT(30) DEF From
    <3>2. ASSUME NEW i \in 1..n PROVE From(f, 5)[i] = s[i]
      <4>1. i + 4 \in 1..(4 + n) /\ (i + 4) + 3 = 7 + i
        BY <1>n
      <4> QED
        BY <1>v, <2>5, <3>1, <4>1
    <3> QED
      BY <1>s, <3>1, <3>2, SeqEqual DEF n
  <2>12. NamedBy(f) = {PercentDecode(From(f, Min(Splits(f)) + 2))}
    <3>1. Star # Plain
      BY DEF Star, Plain
    <3> QED
      BY <2>9, <2>10, <3>1, Zenon DEF NamedBy
  <2>13. 3 + 2 = 5
    OBVIOUS
  <2> QED
    BY <2>2, <2>8, <2>10, <2>11, <2>12, <2>13
<1>6. {a \in Begins(v) : NamedBy(Trim(Field(v, a), Blank)) # {}} = {3}
  BY <1>3, <1>4, <1>5
<1>7. Min({3}) = 3
  BY LowestIs
<1>8. SuggestedName(v) = NamedBy(Trim(Field(v, 3), Blank))
  BY <1>x, <1>6, <1>7 DEF SuggestedName
<1> QED
  BY <1>5, <1>8 DEF v, d

\* Whatever the letters of a name and whichever more of its bytes than it must a
\* server escapes, the client reads the name the server meant, from the header as
\* it arrives (parse_content_disposition_filename in inspect.rs).
THEOREM DecodeReads == Spec => []DecodeInverts
<1>1. Init => SegmentText
  BY DEF Init, SegmentText, Text
<1>2. SegmentText => DecodeInverts
  <2> SUFFICES ASSUME segment \in Text PROVE DecodeInverts
    BY DEF SegmentText
  <2> DEFINE name == [i \in 1..Len(segment) |-> Byte[segment[i]]]
  <2>1. name \in Seq(0..127)
    BY RequestAssumption DEF Text
  <2> HIDE DEF name
  <2>2. ASSUME NEW base \in {65, 97}, NEW which \in SUBSET (1..Len(name)),
               {i \in 1..Len(name) : name[i] \notin Verbatim} \subseteq which
        PROVE  SuggestedName(Disposition \o Escaped(name, which, base)) = {name}
    <3>1. \A i \in 1..Len(name) : name[i] \notin Verbatim => i \in which
      BY <2>2
    <3>2. \A i \in 1..Len(name) : name[i] = Percent => i \in which
      BY <3>1 DEF Verbatim
    <3>3. PercentDecode(Escaped(name, which, base)) = name
      BY <2>1, <3>2, DecodeEscaped
    <3>4. Escaped(name, which, base) \in Seq(Clean)
      BY <2>1, <3>1, EscapedClean
    <3> DEFINE s == Escaped(name, which, base)
    <3> HIDE DEF s
    <3>5. SuggestedName(Disposition \o s) = {PercentDecode(s)}
      BY <3>4, HeaderRead DEF s
    <3> QED
      BY <3>3, <3>5 DEF s
  <2> QED
    BY <2>2 DEF DecodeInverts, name
<1> QED
  BY <1>1, <1>2, NextSegment, PTL DEF Spec
=============================================================================

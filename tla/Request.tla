------------------------------- MODULE Request -------------------------------
(***************************************************************************)
(* One command of the CLI (binaries/cli/src): `download`, from what the    *)
(* user typed over the validation, the HTTP client and the part file to    *)
(* the exit code; and the HTTP client's inspect, which only sends a HEAD.  *)
(* A step is what the code does between two answers of the network or the  *)
(* file system.  The body is streamed by Transfer; here it arrives whole,  *)
(* short or not at all.                                                    *)
(***************************************************************************)
EXTENDS Names, SequencesExt

CONSTANTS
  MaxTyped,      \* bound: the longest path or URL segment
  Letters,       \* the characters the user types in a path
  UrlLetters,    \* the characters of a URL's last segment
  MaxRedirects,  \* RedirectPolicy::Limited's max
  Byte,          \* the byte of each character of a name a server suggests (ASCII)
  NoPath

ASSUME RequestAssumption ==
  /\ MaxTyped \in Nat /\ MaxRedirects \in Nat
  /\ Letters \subseteq Chars /\ UrlLetters \subseteq Chars
  /\ Byte \in [Chars -> 0..127]
  /\ NoPath \notin Text

VARIABLES
  command,    \* "download" or "inspect"
  url,        \* "unparsable", or the scheme
  segment,    \* the last segment of the URL's path
  output,     \* --output, NoPath without one; later request.output
  overwrite,  \* --overwrite
  stage,      \* where the command is
  err,        \* the kind of the Error it ended with, "none" so far
  sent,       \* HTTP requests sent (bound: counted up to two beyond the cap)
  dir,        \* the directory of the output: "none", "old" or "new"
  target,     \* what is at the output: "none", "old" or "new"
  part        \* the part file: "none", "open" or "left"

typed == <<command, url, segment, output, overwrite>>
disk == <<dir, target, part>>
vars == <<typed, stage, err, sent, disk>>

Errors == {"InvalidUrl", "InvalidPath", "InvalidFileName", "Network", "Http",
           "InvalidResponse", "Filesystem", "AlreadyExists", "Internal"}

\* Exit::from_error, and 0.
Exit ==
  CASE err \in {"InvalidUrl", "InvalidPath", "InvalidFileName", "InvalidResponse"} -> 2
    [] err = "Network" -> 3
    [] err = "Http" -> 4
    [] err \in {"Filesystem", "AlreadyExists"} -> 5
    [] err = "Internal" -> 7
    [] OTHER -> 0

Init ==
  /\ command \in {"download", "inspect"}
  /\ url \in {"unparsable", "http", "ftp"}
  /\ segment = <<>>
  /\ output \in IF command = "inspect" THEN {NoPath} ELSE {NoPath, <<>>}
  /\ overwrite \in BOOLEAN
  /\ stage = "typing" /\ err = "none" /\ sent = 0
  /\ dir \in {"none", "old"}
  /\ target \in IF dir = "none" THEN {"none"} ELSE {"none", "old"}
  /\ part = "none"

\* The user types one more character.
Type(c) ==
  /\ stage = "typing" /\ command = "download"
  /\ \/ /\ output = NoPath /\ c \in UrlLetters /\ Len(segment) < MaxTyped
        /\ segment' = Append(segment, c)
        /\ UNCHANGED output
     \/ /\ output # NoPath /\ c \in Letters /\ Len(output) < MaxTyped
        /\ output' = Append(output, c)
        /\ UNCHANGED segment
  /\ UNCHANGED <<command, url, overwrite, stage, err, sent, disk>>

\* Url::parse resolves "." and ".." before anybody sees them.
Settled == segment \notin {<<".">>, <<".", ".">>}

Become(s) == stage' = s /\ UNCHANGED err
Refuse(e) == stage' = "ended" /\ err' = e

\* run(cmd): parse the URL, then --output or a name from the URL, then build
\* the engine, which may fail.
Parse ==
  /\ stage = "typing" /\ Settled /\ command = "download"
  /\ output' = IF output = NoPath THEN DefaultOutput(segment) ELSE output
  /\ CASE url = "unparsable" -> Refuse("InvalidUrl")
       [] url # "unparsable" /\ output # NoPath /\ OutputError(output) # "none"
            -> Refuse(OutputError(output))
       [] OTHER -> Become("validate") \/ Refuse("Internal")
  /\ UNCHANGED <<command, url, segment, overwrite, sent, disk>>

\* validate_request
Validate ==
  /\ stage = "validate"
  /\ CASE url # "http" -> Refuse("InvalidUrl")
       [] url = "http" /\ OutputError(output) # "none" -> Refuse(OutputError(output))
       [] OTHER -> Become("look")
  /\ UNCHANGED <<typed, sent, disk>>

\* What a look at the destination may see: a look that fails sees nothing.
Seen == {target # "none", FALSE}

\* The first look at the destination, then ensure_parent_dir.
Look ==
  /\ stage = "look"
  /\ \E seen \in Seen :
       \/ seen /\ ~overwrite /\ Refuse("AlreadyExists") /\ UNCHANGED dir
       \/ /\ seen => overwrite
          /\ Become("send")
          /\ dir' = IF dir = "none" THEN "new" ELSE dir
       \/ dir = "none" /\ Refuse("Filesystem") /\ UNCHANGED dir
  /\ UNCHANGED <<typed, sent, target, part>>

\* inspect's validate_scheme.
Inspect ==
  /\ stage = "typing" /\ Settled /\ command = "inspect" /\ url # "unparsable"
  /\ IF url # "http" THEN Refuse("InvalidUrl") ELSE Become("send")
  /\ UNCHANGED <<typed, sent, disk>>

\* send(): a request goes out, the first one or one to where a redirect points.
Send ==
  /\ stage = "send"
  /\ Become("wait")
  /\ sent' = IF sent > MaxRedirects THEN MaxRedirects + 2 ELSE sent + 1
  /\ UNCHANGED <<typed, disk>>

\* Mutant: the cap on redirects is not passed to the client.
MayFollowAlways == TRUE
\* Policy::limited: one more hop, or an error that is neither a timeout nor a
\* status, which map_request_error calls Network.
MayFollow == sent <= MaxRedirects

Redirected ==
  /\ stage = "wait"
  /\ IF MayFollow THEN Become("send") ELSE Refuse("Network")
  /\ UNCHANGED <<typed, sent, disk>>

\* No answer: a connection that fails or times out.
Unanswered == stage = "wait" /\ Refuse("Network") /\ UNCHANGED <<typed, sent, disk>>

\* A status that is not a success.
Rejected == stage = "wait" /\ Refuse("Http") /\ UNCHANGED <<typed, sent, disk>>

Served ==
  /\ stage = "wait"
  /\ Become(IF command = "inspect" THEN "ended" ELSE "create")
  /\ UNCHANGED <<typed, sent, disk>>

\* create_part_file: the name of the part file may be too long for the host.
\* Mutant: a name that is too long for a part file is called invalid.
CreatePartNamed ==
  /\ stage = "create"
  /\ \/ PartLength(output) <= MaxName /\ Become("stream") /\ part' = "open"
     \/ PartLength(output) > MaxName /\ Refuse("InvalidFileName") /\ UNCHANGED part
  /\ UNCHANGED <<typed, sent, dir, target>>
CreatePart ==
  /\ stage = "create"
  /\ \/ PartLength(output) <= MaxName /\ Become("stream") /\ part' = "open"
     \/ Refuse("Filesystem") /\ UNCHANGED part
  /\ UNCHANGED <<typed, sent, dir, target>>

\* Every error from here on leaves the part file.
Drop(e) == Refuse(e) /\ part' = "left" /\ UNCHANGED <<typed, sent, dir, target>>

\* The body breaks off, is not as long as announced, or cannot be written.
BodyFails ==
  stage = "stream" /\ \E e \in {"Network", "InvalidResponse", "Filesystem"} : Drop(e)

BodyArrives ==
  /\ stage = "stream" /\ Become("finalize")
  /\ UNCHANGED <<typed, sent, disk>>

\* Somebody else puts a file where the output goes.  (Transfer says what may
\* happen between finalize's own look at the destination and its rename.)
Intrude ==
  /\ stage = "stream" /\ target = "none"
  /\ target' = "old"
  /\ UNCHANGED <<typed, stage, err, sent, dir, part>>

\* rename refuses a path that ends in a slash or a dot: it names a directory.
NamesFile(p) == p[Len(p)] # "/" /\ \A b \in Parts(p) : b[2] = Len(p) => b \in Normal(p)

\* Mutant: finalize does not look at what rename returned.
FinalizeBlindly ==
  /\ stage = "finalize"
  /\ \E seen \in Seen :
       \/ seen /\ ~overwrite /\ Drop("AlreadyExists")
       \/ /\ seen => overwrite
          /\ Become("ended")
          /\ part' = "none"
          /\ target' = IF NamesFile(output) THEN "new" ELSE target
          /\ UNCHANGED <<typed, sent, dir>>
\* finalize: the second look, then rename.
Finalize ==
  /\ stage = "finalize"
  /\ \E seen \in Seen :
       \/ seen /\ ~overwrite /\ Drop("AlreadyExists")
       \/ (seen => overwrite) /\ Drop("Filesystem")
       \/ /\ seen => overwrite
          /\ NamesFile(output)
          /\ Become("ended")
          /\ target' = "new" /\ part' = "none"
          /\ UNCHANGED <<typed, sent, dir>>

Next ==
  \/ \E c \in Letters \cup UrlLetters : Type(c)
  \/ Parse \/ Validate \/ Look \/ Inspect \/ Send
  \/ Redirected \/ Unanswered \/ Rejected \/ Served
  \/ CreatePart \/ BodyFails \/ BodyArrives \/ Intrude \/ Finalize

Spec == Init /\ [][Next]_vars

\* The host carries out its own steps.  Nothing makes a server answer or a body
\* end: the CLI's client has no request timeout.
FairSpec ==
  /\ Spec
  /\ WF_vars(Validate \/ Look \/ Send \/ CreatePart \/ Finalize)

(***************************************************************************)
(* Properties.                                                             *)
(***************************************************************************)

\* A command refused for its URL or its path has touched nothing: no request
\* went out and no directory and no part file was made.
RefusedUntouched ==
  err \in {"InvalidUrl", "InvalidPath", "InvalidFileName"} =>
    sent = 0 /\ dir # "new" /\ part = "none" /\ target # "new"

\* Exit code 0 is for a download whose file is in place, and for no other; a
\* part file is left only by a command that failed.
ExitTells ==
  stage = "ended" /\ command = "download" =>
    /\ (Exit = 0) = (target = "new")
    /\ part # "open" /\ (part = "left" => Exit # 0)

\* The name derived from a URL is one relative component, whatever the URL.
\* It is refused only if it is too long or the name of a device.
DerivedName ==
  output = NoPath /\ Settled =>
    LET p == DefaultOutput(segment)
    IN  /\ Parts(p) = {<<1, Len(p)>>} /\ ~Absolute(p)
        /\ OutputError(p) # "none" => Len(p) > MaxName \/ ReservedName(p)

\* Whichever more bytes of a name a server escapes than it has to, and in
\* whichever case, the client reads the name the server meant (here the letters
\* of the segment): blanks, semicolons, per cent signs and bytes that do not
\* print are escaped, any other may stand as it is.
Verbatim == (33..126) \ {Percent, Semicolon}
HexDigit(n, base) == IF n < 10 THEN 48 + n ELSE base + n - 10
Escaped(name, which, base) ==
  FlattenSeq([i \in 1..Len(name) |->
    IF i \in which THEN <<Percent, HexDigit(name[i] \div 16, base), HexDigit(name[i] % 16, base)>>
    ELSE <<name[i]>>])
Disposition == <<Attachment, Semicolon, 32, Star, Charset, Quote, Quote>>
DecodeInverts ==
  LET name == [i \in 1..Len(segment) |-> Byte[segment[i]]]
  IN  \A base \in {65, 97}, which \in SUBSET (1..Len(name)) :
        {i \in 1..Len(name) : name[i] \notin Verbatim} \subseteq which =>
          SuggestedName(Disposition \o Escaped(name, which, base)) = {name}

\* Once the user has hit Enter a command ends, unless one answer or one body
\* never comes: it does not go round for ever, also when a server redirects it
\* for ever.
EndsOrStalls ==
  (stage # "typing") ~> (stage = "ended" \/ [](stage = "wait") \/ [](stage = "stream"))

=============================================================================

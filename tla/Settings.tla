------------------------------ MODULE Settings ------------------------------
(***************************************************************************)
(* From the command line and config.toml to the configuration this server  *)
(* runs with (internal/config, cmd/root.go), and on to the pages that get  *)
(* their viewport from it (Emulation).  A file is read line by line and    *)
(* refused at the first thing that is not understood; flags win over it;   *)
(* the merged configuration is judged once.                                *)
(*                                                                         *)
(* Texts are sequences of characters.  Those that mean something somewhere *)
(* have names: quote, backslash, hash, comma, space, the opening and the   *)
(* closing bracket of an array; "x" and the digits "1" and "0" are         *)
(* themselves, and "true", "false", "7" and "stable" stand for words.      *)
(***************************************************************************)
EXTENDS Emulation, FiniteSets, SequencesExt

CONSTANTS Keys,     (* keys the lines of an instance are about               *)
          FlagSets, (* sets of keys whose flags are given together           *)
          Lists,    (* arrays written in the file: sequences of texts        *)
          Strings,  (* strings written in the file or given by a flag        *)
          MaxLines  (* bound: lines of the file                              *)

ASSUME SettingsAssumption ==
    /\ Strings \subseteq Seq(STRING)
    /\ Lists \subseteq Seq(Seq(STRING))

Schema ==
    [browser   |-> [headless |-> "bool", channel |-> "string", executable_path |-> "string",
                    attach |-> "string", viewport |-> "string", profile |-> "string",
                    user_data_dir |-> "string"],
     workspace |-> <<>>,
     security  |-> [allow_hosts |-> "list", block_hosts |-> "list", block_local |-> "bool"]]

KindOf ==
    [key \in DOMAIN Schema.browser \cup DOMAIN Schema.security |->
        IF key \in DOMAIN Schema.browser THEN Schema.browser[key] ELSE Schema.security[key]]

Default ==
    [key \in DOMAIN KindOf |->
        CASE key = "channel" -> <<"stable">>
          [] KindOf[key] = "bool" -> <<"false">>
          [] OTHER -> <<>>]

VARIABLES
    phase,    \* "start", "reading", "applied", "merged", "serving", "refused" or "attached"
    section,  \* the section the file is in, or "none" before the first
    headers,  \* the sections it has a header for
    doc,      \* what was read: records of section, key, kind and value
    written,  \* what the file's author wrote: the same, for every line with a key
    given,    \* the flags on the command line, a function from names to texts
    conf      \* the configuration

fileVars == <<section, headers, doc, written>>
confVars == <<phase, fileVars, given, conf>>
allVars == <<vars, confVars>>

CInit ==
    /\ Init
    /\ phase = "start" /\ section = "none" /\ headers = {} /\ doc = {} /\ written = <<>>
    /\ given = <<>> /\ conf = Default

\* The process ends with status 2 before it serves anything.
Refuse ==
    /\ phase' = "refused"
    /\ section' = "none" /\ headers' = {} /\ doc' = {} /\ written' = <<>>
    /\ given' = <<>> /\ conf' = Default
    /\ UNCHANGED vars

-----------------------------------------------------------------------------
(* Texts *)

\* Variant: a backslash before a quote means nothing.
Unescaped(text) ==
    [i \in 0..Len(text) |->
        IF Cardinality({j \in 1..i : text[j] = "quote"}) % 2 = 1 THEN "in" ELSE "out"]

\* Where each position of a text leaves it: outside of strings, in one, or after a backslash.
Quoting(text) ==
    LET state[i \in 0..Len(text)] ==
            IF i = 0 THEN "out"
            ELSE LET before == state[i - 1]
                 IN  CASE before = "escaped" -> "in"
                       [] before = "in" /\ text[i] = "backslash" -> "escaped"
                       [] text[i] = "quote" -> (IF before = "in" THEN "out" ELSE "in")
                       [] OTHER -> before
    IN  state

\* Where a character stands outside of strings.
Outside(text, c) ==
    LET state == Quoting(text)
    IN  {i \in DOMAIN text : text[i] = c /\ state[i - 1] = "out"}

\* A set of positions, in order.
Ascending(S) ==
    [k \in 1..Cardinality(S) |-> CHOOSE i \in S : Cardinality({j \in S : j <= i}) = k]

First(S) == CHOOSE i \in S : \A j \in S : i <= j

StripComment(text) ==
    LET hashes == Outside(text, "hash")
    IN  IF hashes = {} THEN text ELSE SubSeq(text, 1, First(hashes) - 1)

TrimSpace(text) ==
    LET solid == {i \in DOMAIN text : text[i] # "space"}
    IN  IF solid = {} THEN <<>>
        ELSE SubSeq(text, First(solid), CHOOSE i \in solid : \A j \in solid : j <= i)

\* The parts of a text between the positions S.
PartsAt(text, S) ==
    LET ends == Ascending(S \cup {Len(text) + 1})
    IN  [k \in DOMAIN ends |-> SubSeq(text, IF k = 1 THEN 1 ELSE ends[k - 1] + 1, ends[k] - 1)]

\* A comma may end the array.
SplitTopLevel(text) ==
    LET parts == PartsAt(text, Outside(text, "comma"))
    IN  IF TrimSpace(Last(parts)) = <<>> THEN Front(parts) ELSE parts

Error == [kind |-> "error", value |-> <<>>]

\* From a quote to the next one that is not escaped, with nothing after it; the
\* escapes of line ends and tabs are left out.
ParseBasicString(text) ==
    LET state == Quoting(text)
        closing == {i \in 2..Len(text) : text[i] = "quote" /\ state[i - 1] = "in"}
        end == First(closing)
        escapes == {i \in 2..(end - 1) : state[i] = "escaped"}
        kept == Ascending(2..(end - 1) \ escapes)
    IN  IF \/ closing = {}
           \/ TrimSpace(SubSeq(text, end + 1, Len(text))) # <<>>
           \/ \E i \in escapes : text[i + 1] \notin {"backslash", "quote"}
        THEN Error
        ELSE [kind |-> "string", value |-> [k \in DOMAIN kept |-> text[kept[k]]]]

ParseStringArray(text) ==
    LET parts == SplitTopLevel(TrimSpace(SubSeq(text, 2, Len(text) - 1)))
        element(k) == TrimSpace(parts[k])
        wrong(k) == \/ element(k) = <<>> \/ element(k)[1] # "quote"
                    \/ ParseBasicString(element(k)).kind = "error"
    IN  IF Last(text) # "closing" \/ \E k \in DOMAIN parts : wrong(k) THEN Error
        ELSE [kind |-> "list",
              value |-> [k \in DOMAIN parts |-> ParseBasicString(element(k)).value]]

ParseValue(text) ==
    CASE text = <<>> -> Error
      [] IsPrefix(<<"quote", "quote", "quote">>, text) -> Error
      [] text[1] = "quote" -> ParseBasicString(text)
      [] text[1] = "opening" -> ParseStringArray(text)
      [] text \in {<<"true">>, <<"false">>} -> [kind |-> "bool", value |-> text]
      [] text = <<"7">> -> [kind |-> "int", value |-> text]
      [] OTHER -> Error

\* How somebody writes a value: TOML's own rules, not this parser's.
Escape(c) == IF c \in {"quote", "backslash"} THEN <<"backslash", c>> ELSE <<c>>

Quote(string) ==
    <<"quote">> \o FlattenSeq([i \in DOMAIN string |-> Escape(string[i])]) \o <<"quote">>

Items(list) ==
    FlattenSeq([k \in DOMAIN list |->
        (IF k = 1 THEN <<>> ELSE <<"comma", "space">>) \o Quote(list[k])])

Render(kind, value) ==
    CASE kind = "string" -> Quote(value)
      [] kind = "list" -> <<"opening">> \o Items(value) \o <<"closing">>
      [] OTHER -> value

Comments == {<<>>, <<"space", "hash", "quote">>}

-----------------------------------------------------------------------------
(* The file *)

\* An explicit file must be there; the default one may be missing.
Open(explicit, exists) ==
    /\ phase = "start"
    /\ IF exists THEN phase' = "reading"
       ELSE phase' = IF explicit THEN "refused" ELSE "applied"
    /\ UNCHANGED <<vars, fileVars, given, conf>>

Header(name) ==
    /\ phase = "reading" /\ Len(written) < MaxLines
    /\ name # section
    /\ section' = name /\ headers' = headers \cup {name}
    /\ UNCHANGED <<vars, phase, doc, written, given, conf>>

Duplicate(key) == \E e \in doc : e.section = section /\ e.key = key

\* A line key = value, perhaps with a comment.
Pair(key, kind, value, comment) ==
    /\ phase = "reading" /\ Len(written) < MaxLines
    /\ LET parsed == ParseValue(TrimSpace(StripComment(Render(kind, value) \o comment)))
       IN  IF section = "none" \/ Duplicate(key) \/ parsed.kind = "error" THEN Refuse
           ELSE /\ doc' = {e \in doc : e.section # section \/ e.key # key} \cup
                          {[section |-> section, key |-> key, kind |-> parsed.kind,
                            value |-> parsed.value]}
                /\ written' = Append(written, [section |-> section, key |-> key,
                                               kind |-> kind, value |-> value])
                /\ UNCHANGED <<vars, phase, section, headers, given, conf>>

\* Syntax outside of the subset: what is no header, pair, comment or blank line.
Unsupported == phase = "reading" /\ Refuse

\* apply.
Known(e) == e.section \in DOMAIN Schema /\ e.key \in DOMAIN Schema[e.section]

Fits(e) == Known(e) /\ Schema[e.section][e.key] = e.kind

Apply ==
    /\ phase = "reading"
    /\ IF ~(headers \subseteq DOMAIN Schema) \/ \E e \in doc : ~Fits(e)
       THEN Refuse
       ELSE /\ phase' = "applied"
            /\ conf' = [key \in DOMAIN conf |->
                   LET lines == {e \in doc : e.key = key}
                   IN  IF lines = {} THEN conf[key] ELSE (CHOOSE e \in lines : TRUE).value]
            /\ section' = "none" /\ doc' = {}
            /\ UNCHANGED <<vars, headers, written, given>>

-----------------------------------------------------------------------------
(* The command line *)

\* splitList: an empty element is dropped.
SplitList(text) ==
    LET parts == PartsAt(text, {i \in DOMAIN text : text[i] = "comma"})
    IN  SelectSeq([k \in DOMAIN parts |-> TrimSpace(parts[k])], LAMBDA part : part # <<>>)

FlagValue(key, text) ==
    CASE KindOf[key] = "list" -> SplitList(text)
      [] OTHER -> text

Merge(flags) ==
    /\ phase = "applied"
    /\ phase' = "merged"
    /\ given' = flags
    /\ conf' = [key \in DOMAIN conf |->
                   IF key \in DOMAIN flags THEN FlagValue(key, flags[key]) ELSE conf[key]]
    /\ UNCHANGED <<vars, fileVars>>

\* A number above zero.
Positive(text) ==
    /\ \A i \in DOMAIN text : text[i] \in {"0", "1"}
    /\ \E i \in DOMAIN text : text[i] = "1"

ParseViewport(text) ==
    LET crosses == {i \in DOMAIN text : text[i] = "x"}
    IN  /\ crosses # {}
        /\ Positive(SubSeq(text, 1, First(crosses) - 1))
        /\ Positive(SubSeq(text, First(crosses) + 1, Len(text)))

SetNow == {key \in DOMAIN KindOf : conf[key] # Default[key] /\ KindOf[key] = "string"}

Contradiction ==
    \/ "attach" \in SetNow /\ {"profile", "user_data_dir"} \cap SetNow # {}
    \/ {"profile", "user_data_dir"} \subseteq SetNow

ToToolConfig ==
    /\ phase = "merged"
    /\ IF Contradiction \/ (conf.viewport # <<>> /\ ~ParseViewport(conf.viewport))
       THEN Refuse
       ELSE phase' = "serving" /\ UNCHANGED <<vars, fileVars, given, conf>>

-----------------------------------------------------------------------------
(* Pages *)

\* Of the configuration only the viewport is about a page: the rest is put aside.
AttachPages ==
    /\ phase = "serving"
    /\ phase' = "attached"
    /\ Attach(conf.viewport # <<>>)
    /\ conf' = [Default EXCEPT !.viewport = conf.viewport]
    /\ section' = "none" /\ headers' = {} /\ doc' = {} /\ written' = <<>> /\ given' = <<>>

\* Another page is selected, or the emulation of this one changes.
OnPages ==
    /\ phase = "attached"
    /\ Attach(conf.viewport # <<>>) \/ Emulate
    /\ UNCHANGED confVars

Names == {"browser", "security", "workspace", "other"}

\* What the author of a file may write for a key; of a value of the wrong kind only
\* the kind matters.
Values(key, kind) ==
    IF section \in DOMAIN Schema /\ key \in DOMAIN Schema[section] /\ Schema[section][key] = kind
    THEN CASE kind = "string" -> Strings
           [] kind = "list" -> Lists
           [] OTHER -> {<<"true">>, <<"false">>}
    ELSE {IF kind = "int" THEN <<"7">> ELSE IF kind = "bool" THEN <<"true">> ELSE <<>>}

FlagTexts(key) == IF KindOf[key] = "bool" THEN {<<"true">>, <<"false">>} ELSE Strings

Flags ==
    UNION {{flags \in [K -> Strings \cup {<<"true">>, <<"false">>}] :
               \A key \in K : flags[key] \in FlagTexts(key)} : K \in FlagSets}

CNext ==
    \/ \E explicit \in BOOLEAN, exists \in BOOLEAN : Open(explicit, exists)
    \/ \E name \in Names : Header(name)
    \/ \E key \in Keys \cup {"root"}, kind \in {"string", "list", "bool", "int"} :
           \E value \in Values(key, kind), comment \in Comments : Pair(key, kind, value, comment)
    \/ Unsupported \/ Apply
    \/ \E flags \in Flags : Merge(flags)
    \/ ToToolConfig
    \/ AttachPages \/ OnPages

CSpec == CInit /\ [][CNext]_allVars

-----------------------------------------------------------------------------
(* Properties *)

CTypeOK ==
    /\ TypeOK
    /\ phase \in {"start", "reading", "applied", "merged", "serving", "refused", "attached"}
    /\ section \in Names \cup {"none"}
    /\ DOMAIN conf = DOMAIN KindOf
    /\ \A e \in doc : e.section \in Names

WrittenFor(key) == {i \in DOMAIN written : written[i].key = key}

\* Each setting is what its flag says, even if that is nothing; else what the file
\* says, whatever quotes, "#" and commas stand in its strings; else the default
\* (parse, apply, buildConfig).
ServedAsWritten ==
    phase = "serving" =>
        \A key \in DOMAIN conf :
            conf[key] = IF key \in DOMAIN given THEN FlagValue(key, given[key])
                        ELSE IF WrittenFor(key) = {} THEN Default[key]
                        ELSE written[First(WrittenFor(key))].value

\* A server that starts has left nothing of its file aside: every header is a known
\* section, every line a setting of its section, of the right kind, and no setting
\* is there twice (parse, apply).
NothingIgnored ==
    phase = "serving" =>
        /\ headers \subseteq DOMAIN Schema
        /\ \A i \in DOMAIN written :
            /\ Fits(written[i])
            /\ \A j \in DOMAIN written : written[j].key = written[i].key => j = i

\* A server that starts has one browser profile to use, wherever each of its
\* settings came from (toToolConfig, after the merge).
OneProfile ==
    phase = "serving" =>
        \A k, l \in {"attach", "profile", "user_data_dir"} :
            conf[k] # <<>> /\ conf[l] # <<>> => k = l

\* A server that starts runs with what its operator wrote, all of it, and nothing
\* that contradicts itself (buildConfig).
StartsAsConfigured == ServedAsWritten /\ NothingIgnored /\ OneProfile
=============================================================================

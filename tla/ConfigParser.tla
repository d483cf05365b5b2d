---------------------------- MODULE ConfigParser ----------------------------
(***************************************************************************)
(* The configuration of the agent: what ConfigParser reads from a file,    *)
(* what it takes for valid, and what the writers of such a file write      *)
(* (config_parser.cpp, config.hpp, write_config_file of install.sh).       *)
(*                                                                         *)
(* A file is a list of entries in one of two formats.  A text is a         *)
(* sequence of pieces on one line, of which those that a writer or the     *)
(* parser treats specially have names.  A value keeps whether it stands in *)
(* quotes and the number, if any, that std::stoul finds at its beginning.  *)
(***************************************************************************)
EXTENDS Integers, SequencesExt

CONSTANTS PortLimit, WordLimit, LongLimit    \* 2^16, 2^32 and 2^64 in the program

ASSUME WidthsAssumption ==
  /\ PortLimit \in Nat /\ WordLimit \in Nat /\ LongLimit \in Nat
  /\ 8080 < PortLimit
  /\ PortLimit =< WordLimit /\ WordLimit =< LongLimit
  /\ LongLimit % WordLimit = 0 /\ WordLimit % PortLimit = 0

\* The members of ClientConfig, under the keys they have in a file.
Texts   == {"mode", "run_mode", "server_address", "auth_token", "log_file", "pid_file"}
Numbers == {"server_port", "collection_interval_ms", "reconnect_delay_ms",
            "max_reconnect_attempts"}
Flags   == {"enable_gpu"}
Keys    == Texts \cup Numbers \cup Flags

Defaults ==
  [mode |-> <<"local">>, run_mode |-> <<"interactive">>,
   server_address |-> <<"localhost">>, server_port |-> 8080, auth_token |-> << >>,
   collection_interval_ms |-> 1000, enable_gpu |-> TRUE, reconnect_delay_ms |-> 5000,
   max_reconnect_attempts |-> 10, log_file |-> << >>, pid_file |-> << >>]

\* A port is a std::uint16_t, the other numbers are std::uint32_t.
IsClientConfig(c) ==
  /\ DOMAIN c = Keys
  /\ c.server_port \in 0 .. (PortLimit - 1)
  /\ \A k \in Numbers : c[k] \in 0 .. (WordLimit - 1)
  /\ c.enable_gpu \in BOOLEAN

Quote     == "quote"
Backslash == "backslash"
Brace     == "}"
Foreign   == "foreign"    \* a character that is not one of the 95 printable ones of ASCII

\* What json.dumps writes for the ones it does not leave alone: a backslash and the
\* character, or \uXXXX, which no regular expression below turns back.
Escape ==
  [c \in {Quote, Backslash, Foreign} |->
     CASE c = Quote     -> "escaped quote"
       [] c = Backslash -> "escaped backslash"
       [] c = Foreign   -> "escaped foreign"]

Text(w)   == [quoted |-> TRUE, word |-> w, num |-> {}]
Number(n) == [quoted |-> FALSE, word |-> << >>, num |-> {n}]
Flag(b)   == [quoted |-> FALSE, word |-> IF b THEN <<"true">> ELSE <<"false">>, num |-> {}]

\* A text is a sequence.
IsText(w) == Len(w) \in Nat /\ w = [i \in 1 .. Len(w) |-> w[i]]

\* A value has a number at its beginning, or has none.
IsFile(f) ==
  /\ Len(f.entries) \in Nat /\ DOMAIN f.entries = 1 .. Len(f.entries)
  /\ \A i \in DOMAIN f.entries :
       LET num == f.entries[i].value.num
       IN  num = {} \/ \E n \in num : n \in Int /\ num = {n}

\* A file that is missing reads like an empty one.
NoFile == [json |-> FALSE, closed |-> FALSE, entries |-> << >>]

WidePort(k) == WordLimit    \* mutant: nothing narrows a port
ShortPort(k) == IF k = "server_port" THEN 256 ELSE WordLimit    \* mutant: a port of one byte
Limit(k) == IF k = "server_port" THEN PortLimit ELSE WordLimit
-----------------------------------------------------------------------------
(* parseJsonClientConfig: one regular expression for each key, the first    *)
(* match counts                                                             *)

\* ([^"]*) stops at the first quote, also at one with a backslash before it, which stays.
Quotes(w) == { i \in DOMAIN w : w[i] \in {Quote, Escape[Quote]} }

UpToQuote(w) ==
  LET first == Min(Quotes(w))
  IN  CASE Quotes(w) = {} -> w
        [] Quotes(w) # {} /\ w[first] = Quote -> SubSeq(w, 1, first - 1)
        [] Quotes(w) # {} /\ w[first] # Quote -> Append(SubSeq(w, 1, first - 1), Backslash)

JsonUsable(k, v) ==
  \/ k \in Texts   /\ v.quoted
  \/ k \in Numbers /\ ~v.quoted /\ \E n \in v.num : n >= 0
  \/ k \in Flags   /\ ~v.quoted /\ v.word \in {<<"true">>, <<"false">>}

JsonValue(k, v) ==
  CASE k \in Texts   -> UpToQuote(v.word)
    [] k \in Numbers -> Min(v.num) % Limit(k)
    [] k \in Flags   -> v.word = <<"true">>

\* The positions of the entries for a key whose value the expression matches.
Matches(file, k) ==
  { i \in DOMAIN file.entries : /\ file.entries[i].key = k
                                /\ JsonUsable(k, file.entries[i].value) }

ParseJson(file) ==
  [k \in Keys |->
     LET found == Matches(file, k)
     IN  IF found = {} THEN Defaults[k]
                       ELSE JsonValue(k, file.entries[Min(found)].value)]

\* std::stoul throws for a number it cannot hold, and nothing here catches it.
JsonThrows(file) ==
  \E k \in Numbers :
    LET found == Matches(file, k)
    IN  found # {} /\ Min(file.entries[Min(found)].value.num) >= LongLimit
-----------------------------------------------------------------------------
(* parseKeyValueClientConfig: line by line, a later line overrides an       *)
(* earlier one, quotes around a value are dropped, and a number that cannot *)
(* be read leaves what was there                                            *)

LineUsable(k, v) ==
  k \in Numbers => \E n \in v.num : n < LongLimit /\ -n < LongLimit

\* (std::stoul takes a sign, and negates without leaving the unsigned range.)
LineValue(k, v) ==
  CASE k \in Texts   -> v.word
    [] k \in Numbers -> (Min(v.num) % LongLimit) % Limit(k)
    [] k \in Flags   -> v.word \in {<<"true">>, <<"1">>, <<"yes">>}

\* The lines for a key that change it.
Assignments(file, k) ==
  { i \in DOMAIN file.entries : /\ file.entries[i].key = k
                                /\ LineUsable(k, file.entries[i].value) }

\* No line of a JSON document has one of the keys before a `='.
ParseKeyValue(file) ==
  [k \in Keys |->
     LET found == Assignments(file, k)
     IN  IF file.json \/ found = {} THEN Defaults[k]
                                    ELSE LineValue(k, file.entries[Max(found)].value)]
-----------------------------------------------------------------------------
AnyBrace(file) == file.json          \* mutant: the closing brace is not looked for

\* isJsonFormat: the text begins with { and ends with }.
IsJsonFormat(file) == file.json /\ file.closed

ParseThrows(file) == IsJsonFormat(file) /\ JsonThrows(file)
ParseClientConfig(file) ==
  IF IsJsonFormat(file) THEN ParseJson(file) ELSE ParseKeyValue(file)

ValidateClientConfig(c) ==
  /\ c.mode \in {<<"local">>, <<"distributed">>}
  /\ c.run_mode \in {<<"interactive">>, <<"daemon">>}
  /\ c.mode = <<"distributed">> => c.server_address # << >> /\ c.auth_token # << >>
  /\ \A k \in Numbers : c[k] # 0
  /\ c.run_mode = <<"daemon">> => c.log_file # << >> /\ c.pid_file # << >>
-----------------------------------------------------------------------------
(* The writers *)

KeyOrder ==
  <<"mode", "run_mode", "server_address", "server_port", "auth_token",
    "collection_interval_ms", "enable_gpu", "reconnect_delay_ms",
    "max_reconnect_attempts", "log_file", "pid_file">>

Value(c, k) ==
  CASE k \in Texts   -> Text(c[k])
    [] k \in Numbers -> Number(c[k])
    [] k \in Flags   -> Flag(c[k])

Entries(c) == [i \in DOMAIN KeyOrder |-> [key |-> KeyOrder[i], value |-> Value(c, KeyOrder[i])]]

\* A text that no writer changes and the parser does not cut short.
Plain(w) == \A i \in DOMAIN w : w[i] \notin (DOMAIN Escape \cup {Escape[Quote]})

\* json.dumps, with its default ensure_ascii.
Escaped(w) ==
  [i \in DOMAIN w |-> IF w[i] \in DOMAIN Escape THEN Escape[w[i]] ELSE w[i]]
EscapedTexts(c) == [k \in Keys |-> IF k \in Texts THEN Escaped(c[k]) ELSE c[k]]

\* generateJsonClientConfig; install.sh; an editor.
GenerateJson(c)  == [json |-> TRUE, closed |-> TRUE, entries |-> Entries(c)]
InstallerFile(c) == GenerateJson(EscapedTexts(c))
Lines(c)         == [json |-> FALSE, closed |-> FALSE, entries |-> Entries(c)]

\* What is there of a file when its writing has been cut short behind n entries, or
\* anywhere before the next one is complete.
Cut(file, n) ==
  [json |-> file.json, closed |-> FALSE, entries |-> SubSeq(file.entries, 1, n)]

\* The braces in the texts of a file, each as its entry and its place in there.
Braces(file) ==
  UNION { { <<n, i>> : i \in { j \in DOMAIN file.entries[n].value.word :
                                file.entries[n].value.word[j] = Brace } } :
          n \in { m \in DOMAIN file.entries : file.entries[m].value.quoted } }

\* Cut behind one of them a document ends as if it were closed.  Of the entry it is cut
\* in, no quote ends the value, unless there is one in the text before the brace.
CutBehindBrace(file, brace) ==
  LET n      == brace[1]
      begun  == SubSeq(file.entries[n].value.word, 1, brace[2])
      before == SubSeq(file.entries, 1, n - 1)
  IN  [json |-> file.json, closed |-> TRUE,
       entries |-> IF Quotes(begun) = {} THEN before
                   ELSE Append(before, [file.entries[n] EXCEPT !.value.word = begun])]
=============================================================================

----------------------------- MODULE CommandLine ----------------------------
(***************************************************************************)
(* The command line of the editor: parse_args() and validate_arguments()   *)
(* of src/src/frontend.c, with as much of src/src/lib/argtable3.c as their *)
(* table of options calls for.                                             *)
(*                                                                         *)
(* A word of the command line is a record; its kind says what getopt makes  *)
(* of it.  Words are numbered from 1, as the program's name is not among    *)
(* them.  All short options take an argument, so that a word has one of    *)
(* them at most; behind a "-" there may be letters first that are none, and *)
(* then a short option, or a second "-" and the name of a long one, as in   *)
(* "-xyh3" or "-x-help".                                                    *)
(***************************************************************************)
EXTENDS Integers, Sequences, FiniteSets, SequencesExt

CONSTANTS
  Completions,  \* for each long name as typed, the long options it begins
  IntMax,       \* INT_MAX
  Argvs,        \* bound: the command lines that the editor is started with
  PosixlyCorrect,  \* whether the environment has POSIXLY_CORRECT
  None          \* no argument attached to an option

Literals == {"help", "usage", "version"}
Numeric == {"width", "height"}
Valued == Numeric \cup {"server", "port"}
LongNames == Literals \cup Valued

LetterOf == [w |-> "width", h |-> "height", s |-> "server", p |-> "port"]

Text(t) == [kind |-> "text", text |-> t]

ASSUME CommandLineAssumption ==
  /\ \A typed \in DOMAIN Completions : Completions[typed] \subseteq LongNames
  /\ IntMax \in Nat
  /\ \A words \in Argvs :
       /\ words \in Seq({words[i] : i \in DOMAIN words})
       /\ \A i \in DOMAIN words : words[i].kind = "short" => words[i].letter \in DOMAIN LetterOf
  /\ PosixlyCorrect \in BOOLEAN
  /\ None # Text("")

Numeral(sign, prefix, digits, suffix) ==
  [kind |-> "numeral", sign |-> sign, prefix |-> prefix, digits |-> digits,
   suffix |-> suffix]
Short(letter, attached) ==
  [kind |-> "short", letter |-> letter, attached |-> attached, unknown |-> FALSE]
Long(name, attached) ==
  [kind |-> "long", name |-> name, attached |-> attached, unknown |-> FALSE]
EndOfOptions == [kind |-> "end"]

(* Letters that are no options: before an option in its word, or alone *)
Behind(word) == [word EXCEPT !.unknown = TRUE]
Letters == [kind |-> "letters"]
HasUnknown(word) == word.kind \in {"short", "long"} /\ word.unknown

(* "-" is not an option; a negative number is a word of unknown letters.    *)
IsOption(word) == \/ word.kind \in {"short", "long", "letters", "end"}
                  \/ word.kind = "numeral" /\ word.sign < 0

-----------------------------------------------------------------------------
(* What the options get: arg_int_scanfn(), arg_str_scanfn(), arg_file_scanfn(), *)
(* arg_lit_scanfn().                                                        *)

Base(prefix) == CASE prefix = "0x" -> 16 [] prefix = "0o" -> 8
                  [] prefix = "0b" -> 2 [] prefix = "" -> 10
Scales == [KB |-> 1024, MB |-> 1048576, GB |-> 1073741824]
Scale(suffix) == IF suffix \in DOMAIN Scales THEN Scales[suffix] ELSE 1

(* A digit that the base does not have ends the number, and is no suffix.   *)
IsInt(word) ==
  /\ word.kind = "numeral"
  /\ word.sign \in {-1, 1}
  /\ word.prefix \in {"", "0x", "0o", "0b"}
  /\ word.digits \in Seq(0 .. Base(word.prefix) - 1) \ {<<>>}
  /\ word.suffix \in {"", "KB", "MB", "GB"}

Magnitude(word) ==
  LET value[i \in 0 .. Len(word.digits)] ==
        IF i = 0 THEN 0 ELSE value[i - 1] * Base(word.prefix) + word.digits[i]
  IN value[Len(word.digits)]

(* The suffix multiplies a number only when the product stays an int.       *)
Fits(word) ==
  Magnitude(word) - (IF word.sign < 0 THEN 1 ELSE 0) <= IntMax \div Scale(word.suffix)

IntOf(word) == word.sign * Magnitude(word) * Scale(word.suffix)

(* Of the number of errors only counts whether it is 0. *)
RegisterError(args) == [args EXCEPT !.errors = 1]

(* Each entry of the table takes one value at most. *)
Scan(args, option, value) ==
  IF \/ args.given[option] # <<>>
     \/ option \in Numeric /\ ~(IsInt(value) /\ Fits(value))
  THEN RegisterError(args)
  ELSE [args EXCEPT !.given[option] = <<value>>]

-----------------------------------------------------------------------------
(* getopt_internal() on a copy of the words, which it rearranges: start and *)
(* end are the first of the other words it has skipped and the first option *)
(* behind them (nonopt_start, nonopt_end), 0 when not set.                  *)

(* The remainders get smaller, so that there are fewer of them than b.       *)
GcdStep(p) == IF p[1] % p[2] = 0 THEN p ELSE <<p[2], p[1] % p[2]>>
Gcd(a, b) ==
  LET pairs[i \in 0 .. b] == IF i = 0 THEN <<a, b>> ELSE GcdStep(pairs[i - 1])
  IN pairs[b][2]

Swap(words, i, j) == [words EXCEPT ![i] = words[j], ![j] = words[i]]

(* permute_args(): two neighbouring blocks change places, cycle by cycle.   *)
Move(st, cstart, start, end, optEnd) ==
  LET pos == IF st.pos >= end THEN st.pos - (end - start) ELSE st.pos + (optEnd - end)
  IN [words |-> Swap(st.words, pos, cstart), pos |-> pos]

Cycle(words, cstart, length, start, end, optEnd) ==
  LET moved[j \in 0 .. length] ==
        IF j = 0 THEN [words |-> words, pos |-> cstart]
        ELSE Move(moved[j - 1], cstart, start, end, optEnd)
  IN moved[length].words

PermuteArgs(start, end, optEnd, words) ==
  LET cycles == Gcd(end - start, optEnd - end)
      permuted[i \in 0 .. cycles] ==
        IF i = 0 THEN words
        ELSE Cycle(permuted[i - 1], end + (i - 1), (optEnd - start) \div cycles,
                   start, end, optEnd)
  IN permuted[cycles]

(* The skipped words go behind the options that follow them.                *)
Permuted(st) ==
  IF st.end = 0 THEN st
  ELSE [st EXCEPT !.words = PermuteArgs(st.start, st.end, st.optind, @),
                  !.optind = @ - (st.end - st.start),
                  !.start = 0, !.end = 0]

(* Mutated: the skipped words are looked for where the options begin. *)
MutSkip(st) ==
  LET permuted == Permuted(st)
  IN [permuted EXCEPT !.start = IF st.start = 0 THEN st.optind ELSE st.start,
                      !.optind = st.optind + 1]

(* Permuted() leaves optind at the first skipped word. *)
Skip(st) ==
  LET permuted == Permuted(st)
  IN [permuted EXCEPT !.start = IF st.start = 0 THEN st.optind
                                ELSE IF st.end = 0 THEN st.start ELSE permuted.optind,
                      !.optind = st.optind + 1]

(* An option was found: what was skipped before it ends here.               *)
Found(st) == [st EXCEPT !.end = IF st.start # 0 /\ @ = 0 THEN st.optind ELSE @]

Failed(st) == [st EXCEPT !.optind = @ + 1, !.args = RegisterError(@)]
Got(st, option, value, used) ==
  [st EXCEPT !.optind = @ + used, !.args = Scan(@, option, value)]

(* An option with an argument takes it from its own word or from the next,  *)
(* whatever that looks like.                                                *)
TakeValue(st, option, attached) ==
  IF attached # None THEN Got(st, option, attached, 1)
  ELSE IF st.optind = Len(st.words) THEN Failed(st)
  ELSE Got(st, option, st.words[st.optind + 1], 2)

(* Letters that are no options: an error for each, and each call of getopt   *)
(* goes on with what is left of the word.                                   *)
TakeUnknown(st, word) ==
  IF HasUnknown(word) THEN [st EXCEPT !.args = RegisterError(@)] ELSE st

(* In a word of such letters only the last one moves on to the next word.   *)
TakeShort(st, word) ==
  IF word.kind = "short" /\ word.letter \in DOMAIN LetterOf
  THEN TakeValue(st, LetterOf[word.letter], word.attached)
  ELSE Failed(st)

(* A name in full or an abbreviation of one name only; no name begins another. *)
LongOption(typed) ==
  IF typed \in LongNames THEN {typed}
  ELSE IF typed \in DOMAIN Completions /\ Cardinality(Completions[typed]) = 1
       THEN Completions[typed] ELSE {}

(* An empty argument is an error even though it is scanned.                 *)
TakeLong(st, word) ==
  LET option == CHOOSE n \in LongOption(word.name) : TRUE
      taken == TakeValue(st, option, word.attached)
      empty == Text("") \in {word.attached} \cup
                 (IF word.attached = None /\ st.optind < Len(st.words)
                  THEN {st.words[st.optind + 1]} ELSE {})
  IN IF LongOption(word.name) = {} THEN Failed(st)
     ELSE IF option \in Literals
          THEN IF word.attached # None THEN Failed(st) ELSE Got(st, option, None, 1)
     ELSE IF empty THEN [taken EXCEPT !.args = RegisterError(@)] ELSE taken

(* The first word that is no option ends the options, if it may not be      *)
(* skipped.                                                                 *)
Stop(st) == [st EXCEPT !.done = TRUE]

(* Mutated: the words are permuted whatever the environment says. *)
MutSkipOrStop(st) == Skip(st)

SkipOrStop(st) == IF PosixlyCorrect THEN Stop(st) ELSE Skip(st)

(* One word at a time, until the words or the options end.                  *)
Getopt(st) ==
  IF st.done THEN st
  ELSE IF st.optind > Len(st.words)
       THEN [Permuted(st) EXCEPT !.done = TRUE,
               !.optind = IF st.end = 0 /\ st.start # 0 THEN st.start
                          ELSE Permuted(st).optind]
  ELSE LET word == st.words[st.optind] IN
       IF ~IsOption(word) THEN SkipOrStop(st)
       ELSE IF word.kind = "end"
            THEN [Permuted([Found(st) EXCEPT !.optind = @ + 1]) EXCEPT !.done = TRUE]
       ELSE IF word.kind = "long" THEN TakeLong(TakeUnknown(Found(st), word), word)
       ELSE TakeShort(TakeUnknown(Found(st), word), word)

Unparsed(words) ==
  [words |-> words, optind |-> 1, start |-> 0, end |-> 0, done |-> FALSE,
   args |-> [given |-> [o \in LongNames \cup {"file"} |-> <<>>], errors |-> 0]]

ParseTagged(words) ==
  LET parsed[i \in 0 .. Len(words) + 1] ==
        IF i = 0 THEN Unparsed(words) ELSE Getopt(parsed[i - 1])
  IN parsed[Len(words) + 1]

(* What is left is for the one entry without a name; each word more is an error. *)
ParseUntagged(args, words) ==
  LET found[i \in 0 .. Len(words)] ==
        IF i = 0 THEN args ELSE Scan(found[i - 1], "file", words[i])
  IN found[Len(words)]

LeftOver(tagged, argc) == SubSeq(tagged.words, tagged.optind, argc)

ArgParse(words) ==
  LET tagged == ParseTagged(words)
  IN ParseUntagged(tagged.args, LeftOver(tagged, Len(words)))

-----------------------------------------------------------------------------
(* parse_args(): the outcome is a reason to exit, or the arguments.         *)

Exit(why) == [exit |-> why]

NumberOr0(values) == IF values = <<>> THEN 0 ELSE IntOf(values[1])

Valid(given) ==
  LET width == NumberOr0(given["width"])
      height == NumberOr0(given["height"])
      connects == given["server"] # <<>>
  IN /\ width >= 0 /\ height >= 0
     /\ given["port"] \notin {<<>>, <<Text("")>>} => given["server"] \notin {<<>>, <<Text("")>>}
     /\ connects => given["file"] \in {<<>>, <<Text("-")>>}
     /\ connects => width <= 0 /\ height <= 0

(* Where init_state() gets the canvas from; no file has an empty name.      *)
Source(given) == CASE given["server"] # <<>> -> "server"
                   [] given["file"] = <<>> -> "blank"
                   [] given["file"] = <<Text("-")>> -> "stdin"
                   [] given["file"] = <<Text("")>> -> "nowhere"
                   [] OTHER -> "file"

Started(given) ==
  [exit |-> "no", source |-> Source(given),
   height |-> NumberOr0(given["height"]), width |-> NumberOr0(given["width"])]

ParseArgs(words) ==
  LET args == ArgParse(words)
      asked == {o \in Literals : args.given[o] # <<>>}
  IN IF "help" \in asked THEN Exit("help")
     ELSE IF "usage" \in asked THEN Exit("usage")
     ELSE IF "version" \in asked THEN Exit("version")
     ELSE IF args.errors > 0 THEN Exit("error")
     ELSE IF ~Valid(args.given) THEN Exit("invalid")
     ELSE Started(args.given)

Outcomes == {ParseArgs(words) : words \in Argvs}

-----------------------------------------------------------------------------
(* What a command line means, without moving a word: the role of each word, *)
(* and then what the options among them are given.                          *)

OptionOf(word) ==
  IF word.kind = "long" THEN LongOption(word.name)
  ELSE IF word.kind = "short" /\ word.letter \in DOMAIN LetterOf
       THEN {LetterOf[word.letter]} ELSE {}

WantsNext(word) == /\ OptionOf(word) \cap Valued # {}
                   /\ word.attached = None

Roles(words) ==
  LET Role[i \in DOMAIN words] ==
        IF \E j \in 1 .. i - 1 : \/ words[j].kind = "end" /\ Role[j] = "option"
                                 \/ PosixlyCorrect /\ Role[j] = "other"
        THEN "other"
        ELSE IF i > 1 /\ Role[i - 1] = "option" /\ WantsNext(words[i - 1]) THEN "value"
        ELSE IF IsOption(words[i]) THEN "option" ELSE "other"
  IN Role

Tagged(words) == {i \in DOMAIN words : Roles(words)[i] = "option" /\ words[i].kind # "end"}
Untagged(words) == {i \in DOMAIN words : Roles(words)[i] = "other"}
Uses(words, o) == {i \in Tagged(words) : OptionOf(words[i]) = {o}}

HasValue(words, i) == /\ OptionOf(words[i]) \cap Valued # {}
                      /\ WantsNext(words[i]) => i < Len(words)
ValueOf(words, i) == IF WantsNext(words[i]) THEN words[i + 1] ELSE words[i].attached

AsksFor(words, o) == \E i \in Uses(words, o) : words[i].attached = None

Mistaken(words, i) ==
  \/ HasUnknown(words[i]) \/ OptionOf(words[i]) = {}
  \/ OptionOf(words[i]) \subseteq Literals /\ words[i].attached # None
  \/ OptionOf(words[i]) \subseteq Valued /\ ~HasValue(words, i)
  \/ HasValue(words, i) /\ words[i].kind = "long" /\ ValueOf(words, i) = Text("")
  \/ /\ HasValue(words, i) /\ OptionOf(words[i]) \subseteq Numeric
     /\ ~(IsInt(ValueOf(words, i)) /\ Fits(ValueOf(words, i)))

Wrong(words) ==
  \/ Cardinality(Untagged(words)) > 1
  \/ \E o \in LongNames : Cardinality(Uses(words, o)) > 1
  \/ \E i \in Tagged(words) : Mistaken(words, i)

(* No option is given more than one value, unless the command line is wrong. *)
TheOne(values) == IF values = {} THEN <<>> ELSE <<CHOOSE v \in values : TRUE>>

GivenTo(words, o) ==
  TheOne(IF o = "file" THEN {words[i] : i \in Untagged(words)}
         ELSE {ValueOf(words, i) : i \in Uses(words, o)})

Meaning(words) ==
  LET given == [o \in LongNames \cup {"file"} |-> GivenTo(words, o)]
  IN IF AsksFor(words, "help") THEN Exit("help")
     ELSE IF AsksFor(words, "usage") THEN Exit("usage")
     ELSE IF AsksFor(words, "version") THEN Exit("version")
     ELSE IF Wrong(words) THEN Exit("error")
     ELSE IF ~Valid(given) THEN Exit("invalid")
     ELSE Started(given)

Others(words) ==
  LET role == Roles(words)
      found[i \in 0 .. Len(words)] ==
        IF i = 0 THEN <<>>
        ELSE IF role[i] = "other" THEN Append(found[i - 1], words[i]) ELSE found[i - 1]
  IN found[Len(words)]

(* The command lines for which the two disagree *)
Misread == {words \in Argvs : \/ ParseArgs(words) # Meaning(words)
                              \/ LeftOver(ParseTagged(words), Len(words)) # Others(words)}
=============================================================================

-------------------------- MODULE CommandLineProofs -------------------------
(***************************************************************************)
(* The command line, for any words in any number and order: numbers are    *)
(* numbers, permute_args() exchanges its blocks, and what the words are    *)
(* taken for while they are moved about is what they mean where they stand.*)
(***************************************************************************)
EXTENDS CommandLine, SequenceTheorems, FiniteSetTheorems, TLAPS

-----------------------------------------------------------------------------
(* Induction along a sequence.  A loop's states are a function on 0 .. n,   *)
(* whose existence is shown in the same way.                                *)

LEMMA Least ==
  ASSUME NEW T \in SUBSET Nat, T # {}
  PROVE  \E i \in T : \A j \in T : i <= j
<1> DEFINE Below == {1 .. i : i \in T}
<1>1. Below \subseteq FiniteSubsetsOf(Nat) /\ Below # {}
  <2>1. ASSUME NEW i \in T PROVE 1 .. i \in FiniteSubsetsOf(Nat)
    <3>1. IsFiniteSet(1 .. i) /\ 1 .. i \subseteq Nat
      BY FS_Interval
    <3> QED
      BY <3>1 DEF FiniteSubsetsOf
  <2> QED
    BY <2>1
<1>2. IsWellFoundedOn(StrictSubsetOrdering(Nat), FiniteSubsetsOf(Nat))
  BY FS_StrictSubsetOrderingWellFounded
<1>3. PICK X \in Below : \A Y \in Below : ~(<<Y, X>> \in StrictSubsetOrdering(Nat))
  <2> HIDE DEF Below
  <2> QED
    BY <1>1, <1>2, WFMin
<1>4. PICK i \in T : X = 1 .. i
  OBVIOUS
<1>5. ASSUME NEW j \in T, j < i PROVE FALSE
  <2>1. 1 .. j \subseteq 1 .. i /\ i \in 1 .. i /\ ~(i \in 1 .. j)
    BY <1>5
  <2>2. <<1 .. j, X>> \in StrictSubsetOrdering(Nat)
    BY <1>4, <2>1 DEF StrictSubsetOrdering
  <2> QED
    BY <1>3, <2>2
<1> QED
  BY <1>5

LEMMA Along ==
  ASSUME NEW n \in Nat, NEW T, 0 \in T, \A i \in 1 .. n : i - 1 \in T => i \in T
  PROVE  \A i \in 0 .. n : i \in T
<1> DEFINE Left == {i \in 0 .. n : i \notin T}
<1> SUFFICES ASSUME Left # {} PROVE FALSE
  OBVIOUS
<1>1. PICK m \in Left : \A j \in Left : m <= j
  <2>1. Left \in SUBSET Nat
    OBVIOUS
  <2> QED
    BY <2>1, Least
<1>2. m \in 1 .. n /\ m - 1 \in 0 .. n
  OBVIOUS
<1>3. m - 1 \in T
  BY <1>1, <1>2
<1> QED
  BY <1>2, <1>3

(* strtol0X(), digit by digit *)
LEMMA MagnitudeSteps ==
  ASSUME NEW word, Len(word.digits) \in Nat
  PROVE  \E st :
           /\ st[0] = 0
           /\ \A i \in 1 .. Len(word.digits) : st[i] = st[i - 1] * Base(word.prefix) + word.digits[i]
           /\ Magnitude(word) = st[Len(word.digits)]
<1> DEFINE n == Len(word.digits)
           start == 0
           T == {m \in 0 .. n : \E f : f = [i \in 0 .. m |->
                   IF i = 0 THEN start ELSE f[i - 1] * Base(word.prefix) + word.digits[i]]}
           loop[i \in 0 .. n] == IF i = 0 THEN start
               ELSE loop[i - 1] * Base(word.prefix) + word.digits[i]
<1>1. Magnitude(word) = loop[n]
  BY DEF Magnitude
<1>2. 0 \in T
  <2> HIDE DEF start
  <2> DEFINE f == [i \in 0 .. 0 |-> start]
  <2>1. f = [i \in 0 .. 0 |->
               IF i = 0 THEN start ELSE f[i - 1] * Base(word.prefix) + word.digits[i]]
    OBVIOUS
  <2> HIDE DEF f
  <2>2. \E g : g = [i \in 0 .. 0 |->
               IF i = 0 THEN start ELSE g[i - 1] * Base(word.prefix) + word.digits[i]]
    BY <2>1
  <2> QED
    BY <2>2
<1>3. ASSUME NEW m \in 1 .. n, m - 1 \in T PROVE m \in T
  <2> HIDE DEF start
  <2>1. PICK f : f = [i \in 0 .. m - 1 |->
                        IF i = 0 THEN start ELSE f[i - 1] * Base(word.prefix)
                            + word.digits[i]]
    BY <1>3
  <2> DEFINE g == [i \in 0 .. m |-> IF i <= m - 1 THEN f[i]
                                    ELSE f[m - 1] * Base(word.prefix) + word.digits[m]]
  <2>2. g = [i \in 0 .. m |->
               IF i = 0 THEN start ELSE g[i - 1] * Base(word.prefix) + word.digits[i]]
    BY <2>1
  <2> HIDE DEF g
  <2>3. \E h : h = [i \in 0 .. m |->
               IF i = 0 THEN start ELSE h[i - 1] * Base(word.prefix) + word.digits[i]]
    BY <2>2
  <2> QED
    BY <2>3
<1>4. n \in T
  <2> HIDE DEF T, n
  <2>1. n \in Nat
    BY DEF n
  <2>2. \A i \in 0 .. n : i \in T
    BY <1>2, <1>3, <2>1, Along
  <2> QED
    BY <2>1, <2>2
<1>5. loop = [i \in 0 .. n |-> IF i = 0 THEN start
          ELSE loop[i - 1] * Base(word.prefix) + word.digits[i]]
  <2> HIDE DEF start
  <2> QED
    BY <1>4
<1> HIDE DEF loop
<1>6. loop[0] = start /\ \A i \in 1 .. n : loop[i] = loop[i - 1] * Base(word.prefix) + word.digits[i]
  <2> HIDE DEF start
  <2> QED
    BY <1>5
<1> QED
  BY <1>1, <1>6

(* getopt_internal(), word by word *)
LEMMA GetoptSteps ==
  ASSUME NEW words, Len(words) \in Nat
  PROVE  \E st :
           /\ st[0] = Unparsed(words)
           /\ \A i \in 1 .. Len(words) + 1 : st[i] = Getopt(st[i - 1])
           /\ ParseTagged(words) = st[Len(words) + 1]
<1> DEFINE n == Len(words) + 1
           start == Unparsed(words)
           T == {m \in 0 .. n : \E f : f = [i \in 0 .. m |->
                   IF i = 0 THEN start ELSE Getopt(f[i - 1])]}
           loop[i \in 0 .. n] == IF i = 0 THEN start ELSE Getopt(loop[i - 1])
<1>1. ParseTagged(words) = loop[n]
  BY DEF ParseTagged
<1>2. 0 \in T
  <2> HIDE DEF start
  <2> DEFINE f == [i \in 0 .. 0 |-> start]
  <2>1. f = [i \in 0 .. 0 |->
               IF i = 0 THEN start ELSE Getopt(f[i - 1])]
    OBVIOUS
  <2> HIDE DEF f
  <2>2. \E g : g = [i \in 0 .. 0 |->
               IF i = 0 THEN start ELSE Getopt(g[i - 1])]
    BY <2>1
  <2> QED
    BY <2>2
<1>3. ASSUME NEW m \in 1 .. n, m - 1 \in T PROVE m \in T
  <2> HIDE DEF start
  <2>1. PICK f : f = [i \in 0 .. m - 1 |->
                        IF i = 0 THEN start ELSE Getopt(f[i - 1])]
    BY <1>3
  <2> DEFINE g == [i \in 0 .. m |-> IF i <= m - 1 THEN f[i]
                                    ELSE Getopt(f[m - 1])]
  <2>2. g = [i \in 0 .. m |->
               IF i = 0 THEN start ELSE Getopt(g[i - 1])]
    BY <2>1
  <2> HIDE DEF g
  <2>3. \E h : h = [i \in 0 .. m |->
               IF i = 0 THEN start ELSE Getopt(h[i - 1])]
    BY <2>2
  <2> QED
    BY <2>3
<1>4. n \in T
  <2> HIDE DEF T, n
  <2>1. n \in Nat
    BY DEF n
  <2>2. \A i \in 0 .. n : i \in T
    BY <1>2, <1>3, <2>1, Along
  <2> QED
    BY <2>1, <2>2
<1>5. loop = [i \in 0 .. n |-> IF i = 0 THEN start ELSE Getopt(loop[i - 1])]
  <2> HIDE DEF start
  <2> QED
    BY <1>4
<1> HIDE DEF loop
<1>6. loop[0] = start /\ \A i \in 1 .. n : loop[i] = Getopt(loop[i - 1])
  <2> HIDE DEF start
  <2> QED
    BY <1>5
<1> QED
  BY <1>1, <1>6

(* arg_parse_untagged(), word by word *)
LEMMA UntaggedSteps ==
  ASSUME NEW args, NEW words, Len(words) \in Nat
  PROVE  \E st :
           /\ st[0] = args
           /\ \A i \in 1 .. Len(words) : st[i] = Scan(st[i - 1], "file", words[i])
           /\ ParseUntagged(args, words) = st[Len(words)]
<1> DEFINE n == Len(words)
           start == args
           T == {m \in 0 .. n : \E f : f = [i \in 0 .. m |->
                   IF i = 0 THEN start ELSE Scan(f[i - 1], "file", words[i])]}
           loop[i \in 0 .. n] == IF i = 0 THEN start ELSE Scan(loop[i - 1], "file",
               words[i])
<1>1. ParseUntagged(args, words) = loop[n]
  BY DEF ParseUntagged
<1>2. 0 \in T
  <2> HIDE DEF start
  <2> DEFINE f == [i \in 0 .. 0 |-> start]
  <2>1. f = [i \in 0 .. 0 |->
               IF i = 0 THEN start ELSE Scan(f[i - 1], "file", words[i])]
    OBVIOUS
  <2> HIDE DEF f
  <2>2. \E g : g = [i \in 0 .. 0 |->
               IF i = 0 THEN start ELSE Scan(g[i - 1], "file", words[i])]
    BY <2>1
  <2> QED
    BY <2>2
<1>3. ASSUME NEW m \in 1 .. n, m - 1 \in T PROVE m \in T
  <2> HIDE DEF start
  <2>1. PICK f : f = [i \in 0 .. m - 1 |->
                        IF i = 0 THEN start ELSE Scan(f[i - 1], "file", words[i])]
    BY <1>3
  <2> DEFINE g == [i \in 0 .. m |-> IF i <= m - 1 THEN f[i]
                                    ELSE Scan(f[m - 1], "file", words[m])]
  <2>2. g = [i \in 0 .. m |->
               IF i = 0 THEN start ELSE Scan(g[i - 1], "file", words[i])]
    BY <2>1
  <2> HIDE DEF g
  <2>3. \E h : h = [i \in 0 .. m |->
               IF i = 0 THEN start ELSE Scan(h[i - 1], "file", words[i])]
    BY <2>2
  <2> QED
    BY <2>3
<1>4. n \in T
  <2> HIDE DEF T, n
  <2>1. n \in Nat
    BY DEF n
  <2>2. \A i \in 0 .. n : i \in T
    BY <1>2, <1>3, <2>1, Along
  <2> QED
    BY <2>1, <2>2
<1>5. loop = [i \in 0 .. n |-> IF i = 0 THEN start ELSE Scan(loop[i - 1], "file", words[i])]
  <2> HIDE DEF start
  <2> QED
    BY <1>4
<1> HIDE DEF loop
<1>6. loop[0] = start /\ \A i \in 1 .. n : loop[i] = Scan(loop[i - 1], "file", words[i])
  <2> HIDE DEF start
  <2> QED
    BY <1>5
<1> QED
  BY <1>1, <1>6

-----------------------------------------------------------------------------
(* The command line: the sizes that the editor is started with *)

(* What the options have got so far: what is taken for a number is one.     *)
Scanned(args) ==
  /\ args = [given |-> args.given, errors |-> args.errors]
  /\ args.given = [o \in LongNames \cup {"file"} |-> args.given[o]]
  /\ \A o \in Numeric : args.given[o] = <<>> \/ \E v : args.given[o] = <<v>> /\ IsInt(v)

LEMMA MakeScanned ==
  ASSUME NEW given, NEW errors, given = [o \in LongNames \cup {"file"} |-> given[o]],
         \A o \in Numeric : given[o] = <<>> \/ \E v : given[o] = <<v>> /\ IsInt(v)
  PROVE  Scanned([given |-> given, errors |-> errors])
<1> DEFINE args == [given |-> given, errors |-> errors]
<1>1. args.given = given /\ args.errors = errors
  OBVIOUS
<1>2. args = [given |-> args.given, errors |-> args.errors]
  BY <1>1
<1> HIDE DEF args
<1>3. Scanned(args)
  BY <1>1, <1>2, Zenon DEF Scanned
<1> QED
  BY <1>3 DEF args

LEMMA ErrorScanned ==
  ASSUME NEW args, Scanned(args)
  PROVE  Scanned(RegisterError(args))
<1>1. args = [given |-> args.given, errors |-> args.errors]
  BY DEF Scanned
<1>2. PICK errors : errors = 1
  OBVIOUS
<1>3. RegisterError(args) = [given |-> args.given, errors |-> errors]
  BY <1>1, <1>2 DEF RegisterError
<1>4. /\ args.given = [o \in LongNames \cup {"file"} |-> args.given[o]]
      /\ \A o \in Numeric : args.given[o] = <<>> \/ \E v : args.given[o] = <<v>> /\ IsInt(v)
  BY DEF Scanned
<1> QED
  BY <1>3, <1>4, MakeScanned, ZenonT(30)

LEMMA ScanScanned ==
  ASSUME NEW args, Scanned(args), NEW option, NEW value
  PROVE  Scanned(Scan(args, option, value))
<1>1. CASE args.given[option] # <<>> \/ (option \in Numeric /\ ~(IsInt(value) /\ Fits(value)))
  BY <1>1, ErrorScanned DEF Scan
<1>2. CASE ~(args.given[option] # <<>> \/ (option \in Numeric /\ ~(IsInt(value) /\ Fits(value))))
  <2> DEFINE given == [args.given EXCEPT ![option] = <<value>>]
             names == LongNames \cup {"file"}
  <2>1. Scan(args, option, value) = [args EXCEPT !.given[option] = <<value>>]
    BY <1>2 DEF Scan
  <2>2. args = [given |-> args.given, errors |-> args.errors]
        /\ args.given = [o \in names |-> args.given[o]]
    BY DEF Scanned
  <2>3. Scan(args, option, value) = [given |-> given, errors |-> args.errors]
    BY <2>1, <2>2
  <2>4. Numeric \subseteq names
    BY DEF LongNames, Valued
  <2> HIDE DEF names
  <2>5. given = [o \in names |-> given[o]]
        /\ \A o \in names : given[o] = IF o = option THEN <<value>> ELSE args.given[o]
    BY <2>2
  <2> HIDE DEF given
  <2>6. ASSUME NEW o \in Numeric
        PROVE  given[o] = <<>> \/ \E v : given[o] = <<v>> /\ IsInt(v)
    <3>1. CASE o = option
      BY <1>2, <2>4, <2>5, <3>1
    <3>2. CASE o # option
      BY <2>4, <2>5, <3>2 DEF Scanned
    <3> QED
      BY <3>1, <3>2
  <2> QED
    BY <2>3, <2>5, <2>6, MakeScanned, ZenonT(60) DEF names
<1> QED
  BY <1>1, <1>2

Parsing(st) ==
  /\ st = [words |-> st.words, optind |-> st.optind, start |-> st.start, end |-> st.end,
           done |-> st.done, args |-> st.args]
  /\ st.optind \in Int /\ st.start \in Int /\ st.end \in Int
  /\ Scanned(st.args)

LEMMA PermutedParsing ==
  ASSUME NEW st, Parsing(st)
  PROVE  Parsing(Permuted(st))
<1>1. CASE st.end = 0
  BY <1>1 DEF Permuted
<1>2. CASE st.end # 0
  <2>1. PICK words : words = PermuteArgs(st.start, st.end, st.optind, st.words)
    OBVIOUS
  <2>2. Permuted(st) = [st EXCEPT !.words = words, !.optind = @ - (st.end - st.start),
                                  !.start = 0, !.end = 0]
    BY <1>2, <2>1 DEF Permuted
  <2>3. Permuted(st) = [words |-> words, optind |-> st.optind - (st.end - st.start),
                        start |-> 0, end |-> 0, done |-> st.done, args |-> st.args]
    BY <2>2 DEF Parsing
  <2> QED
    BY <2>3 DEF Parsing
<1> QED
  BY <1>1, <1>2

LEMMA SkipParsing ==
  ASSUME NEW st, Parsing(st)
  PROVE  Parsing(Skip(st))
<1>1. Parsing(Permuted(st))
  BY PermutedParsing
<1> DEFINE p == Permuted(st)
           start == IF st.start = 0 THEN st.optind ELSE IF st.end = 0
               THEN st.start ELSE p.optind
<1>2. Skip(st) = [p EXCEPT !.start = start, !.optind = st.optind + 1]
  BY DEF Skip
<1>3. start \in Int /\ st.optind + 1 \in Int
  BY <1>1 DEF Parsing
<1> HIDE DEF p, start
<1>4. Skip(st) = [words |-> p.words, optind |-> st.optind + 1, start |-> start,
          end |-> p.end,
                  done |-> p.done, args |-> p.args]
  BY <1>1, <1>2 DEF Parsing, p
<1> QED
  BY <1>1, <1>3, <1>4 DEF Parsing, p

LEMMA FoundParsing ==
  ASSUME NEW st, Parsing(st)
  PROVE  Parsing(Found(st))
<1> DEFINE end == IF st.start # 0 /\ st.end = 0 THEN st.optind ELSE st.end
<1>1. Found(st) = [words |-> st.words, optind |-> st.optind, start |-> st.start,
          end |-> end,
                   done |-> st.done, args |-> st.args]
  BY DEF Parsing, Found
<1> QED
  BY <1>1 DEF Parsing

LEMMA FailedParsing ==
  ASSUME NEW st, Parsing(st)
  PROVE  Parsing(Failed(st))
<1>1. PICK args : args = RegisterError(st.args)
  OBVIOUS
<1>2. Scanned(args)
  BY <1>1, ErrorScanned DEF Parsing
<1>3. Failed(st) = [st EXCEPT !.optind = @ + 1, !.args = args]
  BY <1>1 DEF Failed
<1>4. Failed(st) = [words |-> st.words, optind |-> st.optind + 1, start |-> st.start,
                    end |-> st.end, done |-> st.done, args |-> args]
  BY <1>3 DEF Parsing
<1> QED
  BY <1>2, <1>4 DEF Parsing

LEMMA GotParsing ==
  ASSUME NEW st, Parsing(st), NEW option, NEW value, NEW used \in Int
  PROVE  Parsing(Got(st, option, value, used))
<1>1. PICK args : args = Scan(st.args, option, value)
  OBVIOUS
<1>2. Scanned(args)
  BY <1>1, ScanScanned DEF Parsing
<1>3. Got(st, option, value, used) = [st EXCEPT !.optind = @ + used, !.args = args]
  BY <1>1 DEF Got
<1>4. Got(st, option, value, used) =
        [words |-> st.words, optind |-> st.optind + used, start |-> st.start,
         end |-> st.end, done |-> st.done, args |-> args]
  BY <1>3 DEF Parsing
<1> QED
  BY <1>2, <1>4 DEF Parsing

LEMMA TakeValueParsing ==
  ASSUME NEW st, Parsing(st), NEW option, NEW attached
  PROVE  Parsing(TakeValue(st, option, attached))
BY FailedParsing, GotParsing DEF TakeValue

LEMMA TakeParsing ==
  ASSUME NEW st, Parsing(st), NEW word
  PROVE  Parsing(TakeShort(st, word)) /\ Parsing(TakeLong(st, word))
<1>1. Parsing(TakeShort(st, word))
  BY FailedParsing, TakeValueParsing DEF TakeShort
<1>2. Parsing(TakeLong(st, word))
  <2>1. PICK option : option = CHOOSE n \in LongOption(word.name) : TRUE
    OBVIOUS
  <2> DEFINE taken == TakeValue(st, option, word.attached)
  <2>2. Parsing(taken)
    BY TakeValueParsing
  <2>3. Parsing([taken EXCEPT !.args = RegisterError(@)])
    <3> HIDE DEF taken
    <3>1. PICK args : args = RegisterError(taken.args)
      OBVIOUS
    <3>2. Scanned(args)
      BY <2>2, <3>1, ErrorScanned DEF Parsing
    <3>3. [taken EXCEPT !.args = RegisterError(@)] =
            [words |-> taken.words, optind |-> taken.optind, start |-> taken.start,
             end |-> taken.end, done |-> taken.done, args |-> args]
      BY <2>2, <3>1 DEF Parsing
    <3> QED
      BY <2>2, <3>2, <3>3 DEF Parsing
  <2>4. Parsing(Failed(st)) /\ Parsing(Got(st, option, None, 1))
    BY FailedParsing, GotParsing
  <2>5. TakeLong(st, word) \in {Failed(st), Got(st, option, None, 1), taken,
                                [taken EXCEPT !.args = RegisterError(@)]}
    BY <2>1 DEF TakeLong
  <2> HIDE DEF taken
  <2> QED
    BY <2>2, <2>3, <2>4, <2>5
<1> QED
  BY <1>1, <1>2

LEMMA StopParsing ==
  ASSUME NEW st, Parsing(st), NEW word
  PROVE  Parsing(SkipOrStop(st)) /\ Parsing(TakeUnknown(st, word))
<1>1. Parsing(SkipOrStop(st))
  <2>1. CASE PosixlyCorrect
    <3>1. SkipOrStop(st) = [words |-> st.words, optind |-> st.optind, start |-> st.start,
                            end |-> st.end, done |-> TRUE, args |-> st.args]
      BY <2>1 DEF SkipOrStop, Stop, Parsing
    <3> QED
      BY <3>1 DEF Parsing
  <2>2. CASE ~PosixlyCorrect
    BY <2>2, SkipParsing DEF SkipOrStop
  <2> QED
    BY <2>1, <2>2
<1>2. CASE HasUnknown(word)
  <2>1. PICK args : args = RegisterError(st.args)
    OBVIOUS
  <2>2. Scanned(args)
    BY <2>1, ErrorScanned DEF Parsing
  <2>3. TakeUnknown(st, word) = [st EXCEPT !.args = args]
    BY <1>2, <2>1 DEF TakeUnknown
  <2>4. TakeUnknown(st, word) =
          [words |-> st.words, optind |-> st.optind, start |-> st.start,
           end |-> st.end, done |-> st.done, args |-> args]
    BY <2>3 DEF Parsing
  <2> QED
    BY <1>1, <2>2, <2>4 DEF Parsing
<1>3. CASE ~HasUnknown(word)
  BY <1>1, <1>3 DEF TakeUnknown
<1> QED
  BY <1>2, <1>3

LEMMA GetoptParsing ==
  ASSUME NEW st, Parsing(st)
  PROVE  Parsing(Getopt(st))
<1>1. CASE st.done
  BY <1>1 DEF Getopt
<1>2. CASE ~st.done /\ st.optind > Len(st.words)
  <2> DEFINE p == Permuted(st)
             optind == IF st.end = 0 /\ st.start # 0 THEN st.start ELSE p.optind
  <2>1. Parsing(p)
    BY PermutedParsing
  <2>2. Getopt(st) = [p EXCEPT !.done = TRUE, !.optind = optind]
    BY <1>2 DEF Getopt
  <2>3. optind \in Int
    BY <2>1 DEF Parsing
  <2> HIDE DEF p, optind
  <2>4. Getopt(st) = [words |-> p.words, optind |-> optind, start |-> p.start,
            end |-> p.end,
                      done |-> TRUE, args |-> p.args]
    BY <2>1, <2>2 DEF Parsing
  <2> QED
    BY <2>1, <2>3, <2>4 DEF Parsing
<1>3. CASE ~st.done /\ ~(st.optind > Len(st.words))
  <2>1. PICK word : word = st.words[st.optind]
    OBVIOUS
  <2>2. CASE ~IsOption(word)
    BY <1>3, <2>1, <2>2, StopParsing DEF Getopt
  <2>3. CASE IsOption(word) /\ word.kind = "end"
    <3> DEFINE f == Found(st)
               g == [f EXCEPT !.optind = @ + 1]
               p == Permuted(g)
    <3>1. Parsing(f)
      BY FoundParsing
    <3> HIDE DEF f
    <3>2. g = [words |-> f.words, optind |-> f.optind + 1, start |-> f.start, end |-> f.end,
               done |-> f.done, args |-> f.args]
      BY <3>1 DEF Parsing
    <3> HIDE DEF g
    <3>3. Parsing(g)
      BY <3>1, <3>2 DEF Parsing
    <3>4. Parsing(p)
      BY <3>3, PermutedParsing
    <3>5. Getopt(st) = [p EXCEPT !.done = TRUE]
      BY <1>3, <2>1, <2>3 DEF Getopt, f, g
    <3> HIDE DEF p
    <3>6. Getopt(st) = [words |-> p.words, optind |-> p.optind, start |-> p.start,
              end |-> p.end,
                        done |-> TRUE, args |-> p.args]
      BY <3>4, <3>5 DEF Parsing
    <3> QED
      BY <3>4, <3>6 DEF Parsing
  <2>4. CASE IsOption(word) /\ word.kind # "end"
    <3> DEFINE found == TakeUnknown(Found(st), word)
    <3>1. Parsing(found)
      BY FoundParsing, StopParsing
    <3>2. Parsing(TakeShort(found, word)) /\ Parsing(TakeLong(found, word))
      BY <3>1, TakeParsing
    <3>3. Getopt(st) = IF word.kind = "long" THEN TakeLong(found, word)
                       ELSE TakeShort(found, word)
      BY <1>3, <2>1, <2>4 DEF Getopt
    <3> QED
      BY <3>2, <3>3
  <2> QED
    BY <2>2, <2>3, <2>4
<1> QED
  BY <1>1, <1>2, <1>3

LEMMA ArgParseScanned ==
  ASSUME NEW words, Len(words) \in Nat
  PROVE  Scanned(ArgParse(words))
<1> DEFINE n == Len(words) + 1
           tagged == ParseTagged(words)
           left == LeftOver(tagged, Len(words))
<1>1. PICK st : /\ st[0] = Unparsed(words)
                /\ \A i \in 1 .. n : st[i] = Getopt(st[i - 1])
                /\ tagged = st[n]
  BY GetoptSteps
<1> DEFINE T == {i \in 0 .. n : Parsing(st[i])}
<1>2. 0 \in T
  <2>1. Scanned(Unparsed(words).args)
    BY DEF Scanned, Unparsed, Numeric, LongNames, Valued
  <2>2. Parsing(Unparsed(words))
    BY <2>1 DEF Parsing, Unparsed
  <2> QED
    BY <1>1, <2>2
<1>3. ASSUME NEW i \in 1 .. n, i - 1 \in T PROVE i \in T
  BY <1>1, <1>3, GetoptParsing
<1>4. Parsing(tagged)
  <2>1. n \in Nat
    OBVIOUS
  <2> HIDE DEF n, tagged
  <2>2. \A i \in 0 .. n : i \in T
    <3> HIDE DEF T
    <3> QED
      BY <1>2, <1>3, <2>1, Along
  <2> QED
    BY <1>1, <2>1, <2>2
<1> HIDE DEF tagged
<1>5. Len(left) \in Nat
  <2> DEFINE S == {tagged.words[i] : i \in tagged.optind .. Len(words)}
  <2>1. tagged.optind \in Int /\ Len(words) \in Int
    BY <1>4 DEF Parsing
  <2>2. \A i \in tagged.optind .. Len(words) : tagged.words[i] \in S
    OBVIOUS
  <2>3. left \in Seq(S)
    <3> HIDE DEF S
    <3> QED
      BY <2>1, <2>2, SubSeqProperties DEF LeftOver
  <2> QED
    BY <2>3
<1> HIDE DEF left
<1>6. PICK found : /\ found[0] = tagged.args
                   /\ \A i \in 1 .. Len(left) : found[i] = Scan(found[i - 1], "file",
                          left[i])
                   /\ ParseUntagged(tagged.args, left) = found[Len(left)]
  BY <1>5, UntaggedSteps
<1> DEFINE U == {i \in 0 .. Len(left) : Scanned(found[i])}
<1>7. 0 \in U
  BY <1>4, <1>5, <1>6 DEF Parsing
<1>8. ASSUME NEW i \in 1 .. Len(left), i - 1 \in U PROVE i \in U
  BY <1>5, <1>6, <1>8, ScanScanned
<1>9. Scanned(found[Len(left)])
  <2>1. \A i \in 0 .. Len(left) : i \in U
    <3> HIDE DEF U
    <3> QED
      BY <1>5, <1>7, <1>8, Along
  <2> QED
    BY <1>5, <2>1
<1> QED
  BY <1>6, <1>9 DEF ArgParse, tagged, left

LEMMA ScaleIsInt ==
  ASSUME NEW suffix
  PROVE  Scale(suffix) \in Int
<1>1. DOMAIN Scales = {"KB", "MB", "GB"}
  BY SMT DEF Scales
<1>2. Scales["KB"] = 1024 /\ Scales["MB"] = 1048576 /\ Scales["GB"] = 1073741824
  BY SMT DEF Scales
<1>3. \A s \in DOMAIN Scales : Scales[s] \in Int
  BY <1>1, <1>2, SMT
<1> QED
  BY <1>3, SMT DEF Scale

LEMMA IntOfIsInt ==
  ASSUME NEW word, IsInt(word)
  PROVE  IntOf(word) \in Int
<1> DEFINE base == Base(word.prefix)
           n == Len(word.digits)
<1>1. base \in Nat
  BY DEF IsInt, Base
<1> HIDE DEF base
<1>2. n \in Nat /\ \A i \in 1 .. n : word.digits[i] \in Int
  <2>1. word.digits \in Seq(0 .. base - 1)
    BY DEF IsInt, base
  <2>2. n \in Nat /\ \A i \in 1 .. n : word.digits[i] \in 0 .. base - 1
    <3>1. n \in Nat /\ word.digits \in [1 .. n -> 0 .. base - 1]
      BY <2>1, LenProperties
    <3> HIDE DEF n
    <3> QED
      BY <3>1
  <2> QED
    BY <1>1, <2>2
<1>3. PICK st : /\ st[0] = 0
                /\ \A i \in 1 .. n : st[i] = st[i - 1] * base + word.digits[i]
                /\ Magnitude(word) = st[n]
  BY <1>2, MagnitudeSteps DEF base
<1> HIDE DEF n
<1> DEFINE T == {i \in 0 .. n : st[i] \in Int}
<1>4. 0 \in T
  BY <1>2, <1>3
<1>5. ASSUME NEW i \in 1 .. n, i - 1 \in T PROVE i \in T
  <2>1. st[i - 1] \in Int /\ word.digits[i] \in Int
    BY <1>2, <1>5
  <2>2. st[i - 1] * base + word.digits[i] \in Int
    BY <1>1, <2>1
  <2> QED
    BY <1>3, <2>2
<1>6. Magnitude(word) \in Int
  <2>1. \A i \in 0 .. n : i \in T
    <3> HIDE DEF T
    <3> QED
      BY <1>2, <1>4, <1>5, Along
  <2> QED
    BY <1>2, <1>3, <2>1
<1>7. Scale(word.suffix) \in Int
  BY ScaleIsInt
<1>8. word.sign \in Int
  <2>1. word.sign \in {-1, 1}
    BY DEF IsInt
  <2> QED
    BY <2>1
<1> QED
  BY <1>6, <1>7, <1>8 DEF IntOf

-----------------------------------------------------------------------------
(* permute_args() *)

(* gcd(), division by division *)
LEMMA GcdSteps ==
  ASSUME NEW a, NEW b \in Nat
  PROVE  \E st : /\ st[0] = <<a, b>>
                 /\ \A i \in 1 .. b : st[i] = GcdStep(st[i - 1])
                 /\ Gcd(a, b) = st[b][2]
<1> DEFINE n == b
           start == <<a, b>>
           T == {m \in 0 .. n : \E f : f = [i \in 0 .. m |->
                   IF i = 0 THEN start ELSE GcdStep(f[i - 1])]}
           loop[i \in 0 .. n] == IF i = 0 THEN start ELSE GcdStep(loop[i - 1])
<1>1. Gcd(a, b) = loop[n][2]
  BY DEF Gcd
<1>2. 0 \in T
  <2> HIDE DEF start
  <2> DEFINE f == [i \in 0 .. 0 |-> start]
  <2>1. f = [i \in 0 .. 0 |-> IF i = 0 THEN start ELSE GcdStep(f[i - 1])]
    OBVIOUS
  <2> HIDE DEF f
  <2>2. \E g : g = [i \in 0 .. 0 |-> IF i = 0 THEN start ELSE GcdStep(g[i - 1])]
    BY <2>1
  <2> QED
    BY <2>2
<1>3. ASSUME NEW m \in 1 .. n, m - 1 \in T PROVE m \in T
  <2> HIDE DEF start
  <2>1. PICK f : f = [i \in 0 .. m - 1 |-> IF i = 0 THEN start ELSE GcdStep(f[i - 1])]
    BY <1>3
  <2> DEFINE g == [i \in 0 .. m |-> IF i <= m - 1 THEN f[i] ELSE GcdStep(f[m - 1])]
  <2>2. g = [i \in 0 .. m |-> IF i = 0 THEN start ELSE GcdStep(g[i - 1])]
    BY <2>1
  <2> HIDE DEF g
  <2>3. \E h : h = [i \in 0 .. m |-> IF i = 0 THEN start ELSE GcdStep(h[i - 1])]
    BY <2>2
  <2> QED
    BY <2>3
<1>4. n \in T
  <2> HIDE DEF T, n
  <2>1. n \in Nat
    BY DEF n
  <2>2. \A i \in 0 .. n : i \in T
    BY <1>2, <1>3, <2>1, Along
  <2> QED
    BY <2>1, <2>2
<1>5. loop = [i \in 0 .. n |-> IF i = 0 THEN start ELSE GcdStep(loop[i - 1])]
  <2> HIDE DEF start
  <2> QED
    BY <1>4
<1> HIDE DEF loop
<1>6. loop[0] = start /\ \A i \in 1 .. n : loop[i] = GcdStep(loop[i - 1])
  <2> HIDE DEF start
  <2> QED
    BY <1>5
<1> QED
  BY <1>1, <1>6

LEMMA DivModParts ==
  ASSUME NEW n \in Nat, n > 0, NEW i \in Nat,
         NEW q, q = i \div n, NEW r, r = i % n
  PROVE  q \in Int /\ r \in 0 .. n - 1 /\ i = q * n + r
OBVIOUS

LEMMA Remainder ==
  ASSUME NEW n \in Nat, n > 0, NEW i \in Int
  PROVE  \E q \in Int : \E r \in 0 .. n - 1 : i = q * n + r
<1>1. PICK q, r : q = i \div n /\ r = i % n
  OBVIOUS
<1>2. q \in Int /\ r \in 0 .. n - 1 /\ i = q * n + r
  BY <1>1
<1> QED
  BY <1>2

(* Euclid's pair: x and y are made of a and b, and a and b of x and y.      *)
MadeOf(x, a, b) == \E u, v \in Int : x = u * a + v * b
Related(x, y, a, b) ==
  /\ MadeOf(x, a, b) /\ MadeOf(y, a, b) /\ MadeOf(a, x, y) /\ MadeOf(b, x, y)

LEMMA RelatedNext ==
  ASSUME NEW a \in Int, NEW b \in Int, NEW x \in Int, NEW y \in Int, Related(x, y, a, b),
         NEW q \in Int, NEW r \in Int, x = q * y + r
  PROVE  Related(y, r, a, b)
<1>1. ASSUME NEW s \in Int, MadeOf(s, x, y) PROVE MadeOf(s, y, r)
  <2>1. PICK u, v \in Int : s = u * x + v * y
    BY <1>1 DEF MadeOf
  <2>2. u * (q * y + r) + v * y = (u * q + v) * y + u * r
    OBVIOUS
  <2>3. s = (u * q + v) * y + u * r /\ u * q + v \in Int
    BY <2>1, <2>2
  <2> QED
    BY <2>3 DEF MadeOf
<1>2. MadeOf(r, a, b)
  <2>1. PICK u, v \in Int : x = u * a + v * b
    BY DEF Related, MadeOf
  <2>2. PICK m, w \in Int : y = m * a + w * b
    BY DEF Related, MadeOf
  <2>3. (u * a + v * b) - q * (m * a + w * b) = (u - q * m) * a + (v - q * w) * b
    OBVIOUS
  <2>4. r = x - q * y
    OBVIOUS
  <2>5. r = (u - q * m) * a + (v - q * w) * b /\ u - q * m \in Int /\ v - q * w \in Int
    BY <2>1, <2>2, <2>3, <2>4
  <2> QED
    BY <2>5 DEF MadeOf
<1> QED
  BY <1>1, <1>2 DEF Related

(* gcd() divides both numbers, and is made of them.                         *)
LEMMA GcdDivides ==
  ASSUME NEW a \in Nat, a > 0, NEW b \in Nat, b > 0
  PROVE  /\ Gcd(a, b) \in Nat /\ Gcd(a, b) > 0
         /\ \E k \in Int : a = k * Gcd(a, b)
         /\ \E k \in Int : b = k * Gcd(a, b)
         /\ MadeOf(Gcd(a, b), a, b)
<1>1. PICK st : /\ st[0] = <<a, b>>
                /\ \A i \in 1 .. b : st[i] = GcdStep(st[i - 1])
                /\ Gcd(a, b) = st[b][2]
  BY GcdSteps
<1> DEFINE At(i) == \E x, y \in Nat :
                      /\ st[i] = <<x, y>> /\ y > 0 /\ Related(x, y, a, b)
                      /\ y <= b - i \/ x % y = 0
           T == {i \in 0 .. b : At(i)}
<1>2. 0 \in T
  <2>1. a = 1 * a + 0 * b /\ b = 0 * a + 1 * b
    OBVIOUS
  <2>2. MadeOf(a, a, b) /\ MadeOf(b, a, b)
    BY <2>1 DEF MadeOf
  <2>3. At(0)
    BY <1>1, <2>2 DEF Related
  <2> QED
    BY <2>3
<1>3. ASSUME NEW i \in 1 .. b, i - 1 \in T PROVE i \in T
  <2>1. PICK x, y \in Nat : /\ st[i - 1] = <<x, y>> /\ y > 0 /\ Related(x, y, a, b)
                            /\ y <= b - (i - 1) \/ x % y = 0
    BY <1>3
  <2>2. st[i] = IF x % y = 0 THEN <<x, y>> ELSE <<y, x % y>>
    BY <1>1, <2>1 DEF GcdStep
  <2>3. CASE x % y = 0
    BY <2>1, <2>2, <2>3
  <2>4. CASE x % y # 0
    <3>1. PICK q, r : q = x \div y /\ r = x % y
      OBVIOUS
    <3>9. y \in Nat /\ y > 0 /\ x \in Nat
      BY <2>1
    <3>2. q \in Int /\ r \in 0 .. y - 1 /\ x = q * y + r
      BY <3>9, <3>1, DivModParts, SMT
    <3>3. r \in Nat /\ r \in Int /\ r > 0 /\ r <= b - i
      BY <2>1, <2>4, <3>1, <3>2
    <3>7. a \in Int /\ b \in Int /\ x \in Int /\ y \in Int
      OBVIOUS
    <3>8. Related(y, r, a, b)
      BY <2>1, <3>2, <3>3, <3>7, RelatedNext, Zenon
    <3>4. st[i] = <<y, r>>
      BY <2>2, <2>4, <3>1
    <3>5. st[i] = <<y, r>> /\ r > 0 /\ Related(y, r, a, b) /\ (r <= b - i \/ y % r = 0)
      BY <3>3, <3>8, <3>4
    <3>6. At(i)
      BY <3>3, <3>5, Zenon
    <3> QED
      BY <3>6
  <2> QED
    BY <2>3, <2>4
<1>4. At(b)
  <2>1. \A i \in 0 .. b : i \in T
    <3> HIDE DEF T
    <3> QED
      BY <1>2, <1>3, Along
  <2> QED
    BY <2>1
<1>5. PICK x, y \in Nat : /\ st[b] = <<x, y>> /\ y > 0 /\ Related(x, y, a, b)
                          /\ x % y = 0
  BY <1>4
<1>6. Gcd(a, b) = y
  BY <1>1, <1>5
<1>7. PICK q \in Int : x = q * y
  <2>1. PICK q, r : q = x \div y /\ r = x % y
    OBVIOUS
  <2>2. q \in Int /\ r = 0 /\ x = q * y + r
    BY <1>5, <2>1, DivModParts
  <2>3. x = q * y
    BY <2>2
  <2> QED
    BY <2>2, <2>3
<1>8. ASSUME NEW s \in Int, MadeOf(s, x, y) PROVE \E k \in Int : s = k * y
  <2>1. PICK u, v \in Int : s = u * x + v * y
    BY <1>8 DEF MadeOf
  <2>2. u * (q * y) + v * y = (u * q + v) * y /\ u * q + v \in Int
    BY <1>7
  <2>3. s = (u * q + v) * y
    BY <1>7, <2>1, <2>2
  <2> QED
    BY <2>2, <2>3
<1>9. MadeOf(y, a, b) /\ MadeOf(a, x, y) /\ MadeOf(b, x, y) /\ y \in Nat /\ y > 0
  BY <1>5 DEF Related
<1>10. (\E k \in Int : a = k * y) /\ (\E k \in Int : b = k * y)
  <2>1. a \in Int /\ b \in Int
    OBVIOUS
  <2> QED
    BY <1>8, <1>9, <2>1, Zenon
<1> HIDE DEF At, T
<1>11. PICK d : d = Gcd(a, b)
  OBVIOUS
<1>12. d = y
  BY <1>6, <1>11
<1>13. d \in Nat /\ d > 0 /\ (\E k \in Int : a = k * d) /\ (\E k \in Int : b = k * d)
       /\ MadeOf(d, a, b)
  BY <1>9, <1>10, <1>12, Zenon
<1> QED
  BY <1>11, <1>13, Zenon

LEMMA Small ==
  ASSUME NEW k \in Int, NEW g \in Int, g > 0, k * g < g, - g < k * g
  PROVE  k = 0
<1>1. ASSUME k >= 1 PROVE k * g >= g
  <2>1. PICK m \in Nat : k = m + 1
    <3>1. k - 1 \in Nat /\ k = (k - 1) + 1
      BY <1>1
    <3> QED
      BY <3>1
  <2>2. (m + 1) * g = m * g + g /\ m * g >= 0
    OBVIOUS
  <2> QED
    BY <2>1, <2>2
<1>2. ASSUME k <= -1 PROVE k * g <= - g
  <2>1. PICK m \in Nat : k = - m - 1
    <3>1. - k - 1 \in Nat /\ k = - (- k - 1) - 1
      BY <1>2
    <3> QED
      BY <3>1
  <2>2. (- m - 1) * g = - (m * g) - g /\ m * g >= 0
    OBVIOUS
  <2> QED
    BY <2>1, <2>2
<1> QED
  BY <1>1, <1>2

LEMMA Cancel ==
  ASSUME NEW u \in Int, NEW v \in Int, NEW g \in Int, g > 0, u * g = v * g
  PROVE  u = v
<1>1. (u - v) * g = u * g - v * g
  OBVIOUS
<1>2. PICK k \in Int : k = u - v
  OBVIOUS
<1>3. k * g = 0
  BY <1>1, <1>2
<1>4. k = 0
  BY <1>3, Small
<1> QED
  BY <1>2, <1>4

LEMMA Positive ==
  ASSUME NEW u \in Int, NEW g \in Int, g > 0, u * g > 0
  PROVE  u > 0
<1> SUFFICES ASSUME u <= 0 PROVE FALSE
  OBVIOUS
<1>1. PICK m \in Nat : u = - m
  <2>1. - u \in Nat /\ u = - (- u)
    OBVIOUS
  <2> QED
    BY <2>1
<1>2. (- m) * g = - (m * g) /\ m * g >= 0
  OBVIOUS
<1> QED
  BY <1>1, <1>2

LEMMA Quotient ==
  ASSUME NEW s \in Int, NEW g \in Nat, g > 0, NEW w \in Nat, w = s * g
  PROVE  w \div g = s
<1>1. PICK t, r : t = w \div g /\ r = w % g
  OBVIOUS
<1>2. t \in Int /\ r \in 0 .. g - 1 /\ w = t * g + r
  BY <1>1, DivModParts
<1>3. PICK k \in Int : k = s - t
  BY <1>2
<1>4. (s - t) * g = s * g - t * g
  BY <1>2
<1>5. k * g = r
  BY <1>2, <1>3, <1>4
<1>6. k = 0
  BY <1>2, <1>5, Small
<1> QED
  BY <1>1, <1>2, <1>3, <1>6

(* The blocks' lengths in units of their divisor, and Bezout's numbers      *)
Shares(a, b, g, n, u, v, x, y) ==
  /\ a = u * g /\ b = v * g /\ n = u + v
  /\ u > 0 /\ v > 0 /\ x * u + y * v = 1

LEMMA SharesOfGcd ==
  ASSUME NEW a \in Nat, a > 0, NEW b \in Nat, b > 0,
         NEW g, g = Gcd(a, b), NEW n, n = (a + b) \div g
  PROVE  /\ g \in Nat /\ g > 0 /\ g <= b
         /\ \E u, v, x, y \in Int : Shares(a, b, g, n, u, v, x, y)
<1>1. g \in Nat /\ g > 0
  BY GcdDivides
<1>2. PICK u \in Int : a = u * g
  BY GcdDivides
<1>3. PICK v \in Int : b = v * g
  BY GcdDivides
<1>9. MadeOf(g, a, b)
  BY GcdDivides
<1>4. PICK x, y \in Int : g = x * a + y * b
  BY <1>9 DEF MadeOf
<1>5. u > 0 /\ v > 0
  BY <1>1, <1>2, <1>3, Positive
<1>6. x * u + y * v = 1
  <2>1. x * (u * g) + y * (v * g) = (x * u + y * v) * g
    BY <1>1
  <2>2. PICK s \in Int : s = x * u + y * v
    OBVIOUS
  <2>3. s * g = 1 * g
    BY <1>1, <1>2, <1>3, <1>4, <2>1, <2>2
  <2>4. s = 1
    BY <1>1, <2>3, Cancel
  <2> QED
    BY <2>2, <2>4
<1>7. n = u + v
  <2>1. u * g + v * g = (u + v) * g /\ u + v \in Int
    BY <1>1
  <2>2. PICK s \in Int : s = u + v
    OBVIOUS
  <2>3. PICK w \in Nat : w = a + b
    OBVIOUS
  <2>4. w = s * g
    BY <1>2, <1>3, <2>1, <2>2, <2>3
  <2>5. w \div g = s
    BY <1>1, <2>4, Quotient
  <2> QED
    BY <2>2, <2>3, <2>5
<1>8. g <= b
  <2>1. PICK m \in Nat : v = m + 1
    <3>1. v - 1 \in Nat /\ v = (v - 1) + 1
      BY <1>5
    <3> QED
      BY <3>1
  <2>2. (m + 1) * g = m * g + g /\ m * g >= 0
    BY <1>1
  <2> QED
    BY <1>1, <1>3, <2>1, <2>2
<1> QED
  BY <1>1, <1>2, <1>3, <1>5, <1>6, <1>7, <1>8 DEF Shares

-----------------------------------------------------------------------------
(* A cycle: where the loop of permute_args() goes from a place              *)
PlaceAfter(p, start, end, optEnd) == IF p >= end THEN p - (end - start) ELSE p + (optEnd - end)
BlockPlaces(start, optEnd) == start .. optEnd - 1

Blocks(start, end, optEnd, g, n, u, v, x, y) ==
  /\ start \in Nat /\ end \in Nat /\ optEnd \in Nat /\ start < end /\ end < optEnd
  /\ g \in Nat /\ g > 0 /\ g <= optEnd - end
  /\ u \in Int /\ v \in Int /\ x \in Int /\ y \in Int
  /\ Shares(end - start, optEnd - end, g, n, u, v, x, y)

(* q lies a multiple of g from p. *)
Apart(p, q, g) == \E k \in Int : q = p + k * g

LEMMA BlocksInUnits ==
  ASSUME NEW start, NEW end, NEW optEnd, NEW g, NEW n, NEW u, NEW v, NEW x, NEW y,
         Blocks(start, end, optEnd, g, n, u, v, x, y)
  PROVE  /\ start \in Nat /\ end \in Nat /\ optEnd \in Nat /\ start < end /\ end < optEnd
         /\ g \in Nat /\ g > 0 /\ g <= optEnd - end
         /\ u \in Nat /\ v \in Nat /\ x \in Int /\ y \in Int /\ n \in Nat /\ n > 1
         /\ u > 0 /\ v > 0 /\ n = u + v /\ x * u + y * v = 1
         /\ end - start = u * g /\ optEnd - end = v * g /\ optEnd - start = n * g
<1>1. PICK a, b \in Nat : a = end - start /\ b = optEnd - end /\ optEnd - start = a + b
  BY DEF Blocks
<1>2. /\ g \in Nat /\ u \in Int /\ v \in Int /\ u > 0 /\ v > 0 /\ n = u + v
      /\ a = u * g /\ b = v * g /\ x * u + y * v = 1
  BY <1>1 DEF Blocks, Shares
<1>3. (u + v) * g = u * g + v * g
  BY <1>2
<1>4. a + b = n * g
  BY <1>2, <1>3
<1>5. n \in Nat /\ n > 1 /\ u \in Nat /\ v \in Nat
  BY <1>2
<1> QED
  BY <1>1, <1>2, <1>4, <1>5 DEF Blocks

LEMMA PlaceAfterIn ==
  ASSUME NEW start, NEW end, NEW optEnd, NEW g, NEW n, NEW u, NEW v, NEW x, NEW y,
         Blocks(start, end, optEnd, g, n, u, v, x, y), NEW p \in BlockPlaces(start, optEnd)
  PROVE  /\ PlaceAfter(p, start, end, optEnd) \in BlockPlaces(start, optEnd)
         /\ Apart(p, PlaceAfter(p, start, end, optEnd), g)
<1>1. /\ start \in Nat /\ end \in Nat /\ optEnd \in Nat /\ start < end /\ end < optEnd
      /\ g \in Nat /\ u \in Nat /\ v \in Nat
      /\ end - start = u * g /\ optEnd - end = v * g
  BY BlocksInUnits
<1>2. PlaceAfter(p, start, end, optEnd) \in BlockPlaces(start, optEnd)
  <2> HIDE <1>1
  <2>1. start \in Nat /\ end \in Nat /\ optEnd \in Nat /\ start < end /\ end < optEnd
    BY <1>1
  <2> QED
    BY <2>1 DEF PlaceAfter, BlockPlaces
<1>3. PICK a, b \in Int : a = u * g /\ b = v * g
  BY <1>1
<1>4. PlaceAfter(p, start, end, optEnd) = p - a \/ PlaceAfter(p, start, end, optEnd) = p + b
  BY <1>1, <1>3 DEF PlaceAfter
<1>5. p \in Int
  BY <1>1 DEF BlockPlaces
<1>6. (- u) * g = - a
  BY <1>1, <1>3
<1>7. p - a = p + (- u) * g /\ p + b = p + v * g /\ - u \in Int /\ v \in Int
  BY <1>1, <1>3, <1>5, <1>6
<1>8. Apart(p, PlaceAfter(p, start, end, optEnd), g)
  BY <1>4, <1>7 DEF Apart
<1> QED
  BY <1>2, <1>8

LEMMA ApartBack ==
  ASSUME NEW p \in Int, NEW q \in Int, NEW g \in Int, Apart(p, q, g)
  PROVE  Apart(q, p, g)
<1>1. PICK k \in Int : q = p + k * g
  BY DEF Apart
<1>2. (- k) * g = - (k * g) /\ - k \in Int
  OBVIOUS
<1>3. p = q + (- k) * g
  BY <1>1, <1>2
<1> QED
  BY <1>2, <1>3 DEF Apart

LEMMA ApartOn ==
  ASSUME NEW p \in Int, NEW q \in Int, NEW r \in Int, NEW g \in Int,
         Apart(p, q, g), Apart(q, r, g)
  PROVE  Apart(p, r, g)
<1>1. PICK k \in Int : q = p + k * g
  BY DEF Apart
<1>2. PICK l \in Int : r = q + l * g
  BY DEF Apart
<1>3. (k + l) * g = k * g + l * g /\ k + l \in Int
  OBVIOUS
<1>4. r = p + (k + l) * g
  BY <1>1, <1>2, <1>3
<1> QED
  BY <1>3, <1>4 DEF Apart

Orbit(pos, c, n, start, end, optEnd) ==
  pos[0] = c /\ \A j \in 1 .. n : pos[j] = PlaceAfter(pos[j - 1], start, end, optEnd)

(* After j moves from place c, with as many turns as it takes *)
LEMMA MovesFrom ==
  ASSUME NEW start, NEW end, NEW optEnd, NEW g, NEW n, NEW u, NEW v, NEW x, NEW y,
         Blocks(start, end, optEnd, g, n, u, v, x, y), NEW c \in BlockPlaces(start, optEnd),
         NEW pos, Orbit(pos, c, n, start, end, optEnd)
  PROVE  \A j \in 0 .. n : /\ pos[j] \in BlockPlaces(start, optEnd)
                           /\ \E k \in Int : pos[j] = c + j * (v * g) - k * (n * g)
<1> DEFINE At(j) == /\ pos[j] \in BlockPlaces(start, optEnd)
                    /\ \E k \in Int : pos[j] = c + j * (v * g) - k * (n * g)
           T == {j \in 0 .. n : At(j)}
<1>1. /\ start \in Nat /\ end \in Nat /\ optEnd \in Nat /\ start < end /\ end < optEnd
      /\ g \in Nat /\ u \in Nat /\ v \in Nat /\ n \in Nat /\ n = u + v
      /\ end - start = u * g /\ optEnd - end = v * g /\ optEnd - start = n * g
  BY BlocksInUnits
<1>2. c \in Int
  BY <1>1 DEF BlockPlaces
<1>3. PICK b, m \in Int : b = v * g /\ m = n * g /\ end - start = m - b /\ optEnd - end = b
  <2>1. PICK a, b, m \in Int : a = u * g /\ b = v * g /\ m = n * g
    BY <1>1
  <2>2. end - start = m - b /\ optEnd - end = b
    BY <1>1, <2>1
  <2> QED
    BY <2>1, <2>2
<1>4. 0 \in T
  <2>1. c = c + 0 * b - 0 * m
    BY <1>2
  <2>2. c = c + 0 * (v * g) - 0 * (n * g)
    BY <1>3, <2>1
  <2>3. At(0)
    BY <2>2 DEF Orbit
  <2> HIDE DEF At
  <2> QED
    BY <1>1, <2>3
<1>5. ASSUME NEW j \in 1 .. n, j - 1 \in T PROVE j \in T
  <2>1. PICK k \in Int : pos[j - 1] = c + (j - 1) * b - k * m
    BY <1>3, <1>5
  <2>2. pos[j - 1] \in BlockPlaces(start, optEnd)
    BY <1>5
  <2>3. pos[j] = PlaceAfter(pos[j - 1], start, end, optEnd)
    BY DEF Orbit
  <2>4. pos[j] \in BlockPlaces(start, optEnd)
    <3>1. PICK p : p = pos[j - 1]
      OBVIOUS
    <3>2. p \in BlockPlaces(start, optEnd)
      BY <2>2, <3>1
    <3>3. PlaceAfter(p, start, end, optEnd) \in BlockPlaces(start, optEnd)
      BY <3>2, PlaceAfterIn
    <3> QED
      BY <2>3, <3>1, <3>3
  <2>5. pos[j - 1] \in Int
    BY <1>1, <2>2 DEF BlockPlaces
  <2>6. pos[j] = pos[j - 1] + b - m \/ pos[j] = pos[j - 1] + b
    BY <1>1, <1>3, <2>3, <2>5 DEF PlaceAfter
  <2>7. /\ (j - 1) * b = j * b - b
        /\ (k + 1) * m = k * m + m /\ k + 1 \in Int
    OBVIOUS
  <2>8. pos[j] = c + j * b - (k + 1) * m \/ pos[j] = c + j * b - k * m
    BY <1>2, <2>1, <2>6, <2>7
  <2>9. At(j)
    BY <1>3, <2>4, <2>7, <2>8
  <2> QED
    BY <2>9
<1>6. \A j \in 0 .. n : j \in T
  <2> HIDE DEF T
  <2> QED
    BY <1>1, <1>4, <1>5, Along
<1> QED
  BY <1>6

Units(g, n, u, v, x, y) ==
  /\ g \in Nat /\ g > 0 /\ n \in Int /\ u \in Int /\ v \in Int /\ x \in Int /\ y \in Int
  /\ n = u + v /\ x * u + y * v = 1

LEMMA WholeTurns ==
  ASSUME NEW g, NEW n, NEW u, NEW v, NEW x, NEW y, Units(g, n, u, v, x, y),
         NEW d \in Int, NEW k \in Int, d * (v * g) = k * (n * g)
  PROVE  \E l \in Int : d = l * n
<1>0. /\ g \in Int /\ g > 0 /\ n \in Int /\ u \in Int /\ v \in Int /\ x \in Int /\ y \in Int
      /\ n = u + v /\ x * u + y * v = 1
  BY DEF Units
<1>1. d * (v * g) = (d * v) * g /\ k * (n * g) = (k * n) * g
  BY <1>0
<1>2. PICK s, t \in Int : s = d * v /\ t = k * n
  BY <1>0
<1>3. s = t
  BY <1>0, <1>1, <1>2, Cancel
<1>4. d * v = k * n
  BY <1>2, <1>3
<1>5. d * (x * u + y * v) = d
  BY <1>0
<1>6. d * (x * (n - v) + y * v) = (x * d) * n - x * (d * v) + y * (d * v)
  BY <1>0
<1>7. d = (x * d) * n - x * (k * n) + y * (k * n)
  BY <1>0, <1>4, <1>5, <1>6
<1>8. (x * d) * n - x * (k * n) + y * (k * n) = (x * d - x * k + y * k) * n
  BY <1>0
<1>9. d = (x * d - x * k + y * k) * n /\ x * d - x * k + y * k \in Int
  BY <1>0, <1>7, <1>8
<1> QED
  BY <1>9

(* A cycle comes back to its first place at its last move, and never to a   *)
(* place twice before.                                                      *)
LEMMA CycleCloses ==
  ASSUME NEW start, NEW end, NEW optEnd, NEW g, NEW n, NEW u, NEW v, NEW x, NEW y,
         Blocks(start, end, optEnd, g, n, u, v, x, y), NEW c \in BlockPlaces(start, optEnd),
         NEW pos, Orbit(pos, c, n, start, end, optEnd)
  PROVE  /\ pos[n] = c
         /\ \A i, j \in 0 .. n : i < j /\ pos[i] = pos[j] => i = 0 /\ j = n
<1>1. /\ start \in Nat /\ optEnd \in Nat /\ g \in Nat /\ g > 0
      /\ u \in Nat /\ v \in Nat /\ n \in Nat /\ n > 1 /\ n = u + v /\ x \in Int /\ y \in Int
      /\ x * u + y * v = 1 /\ optEnd - start = n * g
  BY BlocksInUnits
<1>2. \A j \in 0 .. n : /\ pos[j] \in BlockPlaces(start, optEnd)
                        /\ \E k \in Int : pos[j] = c + j * (v * g) - k * (n * g)
  BY MovesFrom
<1>3. PICK m \in Int : m = n * g /\ optEnd - start = m
  BY <1>1
<1>4. c \in Int
  BY <1>1 DEF BlockPlaces
<1>5. pos[n] = c
  <2>1. n \in 0 .. n
    BY <1>1
  <2>2. pos[n] \in BlockPlaces(start, optEnd)
    BY <1>2, <2>1
  <2>3. PICK k \in Int : pos[n] = c + n * (v * g) - k * (n * g)
    BY <1>2, <2>1
  <2>4. n * (v * g) = v * (n * g)
    BY <1>1
  <2>5. PICK l \in Int : l = v - k
    BY <1>1
  <2>6. v * m - k * m = (v - k) * m
    BY <1>1
  <2>7. pos[n] = c + l * m
    <3>1. PICK s, t, w \in Int : s = v * m /\ t = k * m /\ w = l * m
      BY <1>1
    <3>2. pos[n] = c + s - t
      BY <1>1, <1>3, <2>3, <2>4, <3>1
    <3>3. s - t = w
      BY <2>5, <2>6, <3>1
    <3> QED
      BY <1>4, <3>1, <3>2, <3>3
  <2>8. PICK w \in Int : w = l * m
    OBVIOUS
  <2>9. w < m /\ - m < w
    BY <1>1, <1>3, <1>4, <2>2, <2>7, <2>8 DEF BlockPlaces
  <2>10. m > 0
    BY <2>9
  <2>11. l = 0
    BY <2>8, <2>9, <2>10, Small
  <2>12. w = 0
    BY <2>8, <2>11
  <2> QED
    BY <1>4, <2>7, <2>8, <2>12
<1>6. ASSUME NEW i \in 0 .. n, NEW j \in 0 .. n, i < j, pos[i] = pos[j]
      PROVE  i = 0 /\ j = n
  <2>1. PICK k \in Int : pos[i] = c + i * (v * g) - k * (n * g)
    BY <1>2
  <2>2. PICK l \in Int : pos[j] = c + j * (v * g) - l * (n * g)
    BY <1>2
  <2>3. PICK b \in Int : b = v * g
    BY <1>1
  <2>4. PICK d, e \in Int : d = j - i /\ e = l - k
    BY <1>1
  <2>5. d * b = j * b - i * b /\ e * m = l * m - k * m
    BY <1>1, <2>4
  <2>6. d * b = e * m
    <3>1. PICK s, t \in Int : s = i * b /\ t = k * m
      BY <1>1
    <3>2. PICK o, w \in Int : o = j * b /\ w = l * m
      BY <1>1
    <3>3. pos[i] = c + s - t /\ pos[j] = c + o - w
      BY <1>3, <2>1, <2>2, <2>3, <3>1, <3>2
    <3>5. c + s - t = c + o - w
      BY <1>6, <3>3, Zenon
    <3>4. o - s = w - t
      BY <1>4, <3>5
    <3> QED
      BY <2>5, <3>1, <3>2, <3>4
  <2>7. d * (v * g) = e * (n * g)
    BY <1>3, <2>3, <2>6
  <2>8. \E h \in Int : d = h * n
    <3>1. Units(g, n, u, v, x, y)
      BY <1>1 DEF Units
    <3>2. d \in Int /\ e \in Int
      OBVIOUS
    <3>3. \A p, q \in Int : p * (v * g) = q * (n * g) => \E h \in Int : p = h * n
      BY <3>1, WholeTurns
    <3> QED
      BY <2>7, <3>2, <3>3
  <2>9. PICK h \in Int : d = h * n
    BY <2>8
  <2>10. d <= n /\ d > 0
    BY <1>1, <1>6, <2>4
  <2>11. CASE d < n
    <3>1. h * n < n /\ - n < h * n /\ n > 0 /\ n \in Int
      BY <1>1, <2>9, <2>10, <2>11
    <3>2. h = 0
      BY <3>1, Small
    <3> QED
      BY <1>1, <2>9, <2>10, <3>2
  <2> QED
    BY <1>1, <1>6, <2>4, <2>10, <2>11
<1> QED
  BY <1>5, <1>6

LEMMA OrbitApart ==
  ASSUME NEW start, NEW end, NEW optEnd, NEW g, NEW n, NEW u, NEW v, NEW x, NEW y,
         Blocks(start, end, optEnd, g, n, u, v, x, y), NEW c \in BlockPlaces(start, optEnd),
         NEW pos, Orbit(pos, c, n, start, end, optEnd)
  PROVE  \A j \in 0 .. n : Apart(c, pos[j], g)
<1>1. g \in Int /\ n \in Int /\ v \in Int /\ start \in Int /\ optEnd \in Int
  BY BlocksInUnits
<1>2. c \in Int
  BY <1>1 DEF BlockPlaces
<1> TAKE j \in 0 .. n
<1>3. PICK k \in Int : pos[j] = c + j * (v * g) - k * (n * g)
  BY MovesFrom
<1>4. j * (v * g) - k * (n * g) = (j * v - k * n) * g /\ j * v - k * n \in Int
  BY <1>1
<1>5. PICK s, t \in Int : s = j * (v * g) /\ t = k * (n * g)
  BY <1>1
<1>6. pos[j] = c + s - t
  BY <1>3, <1>5
<1>7. c + s - t = c + (s - t)
  BY <1>2
<1>8. pos[j] = c + (j * v - k * n) * g
  BY <1>4, <1>5, <1>6, <1>7
<1> QED
  BY <1>4, <1>8 DEF Apart

(* Every place a multiple of the divisor away is on the cycle.              *)
LEMMA CycleCovers ==
  ASSUME NEW start, NEW end, NEW optEnd, NEW g, NEW n, NEW u, NEW v, NEW x, NEW y,
         Blocks(start, end, optEnd, g, n, u, v, x, y), NEW c \in BlockPlaces(start, optEnd),
         NEW pos, Orbit(pos, c, n, start, end, optEnd),
         NEW q \in BlockPlaces(start, optEnd), Apart(c, q, g)
  PROVE  \E j \in 0 .. n - 1 : q = pos[j]
<1>1. /\ start \in Nat /\ optEnd \in Nat /\ g \in Nat /\ g > 0
      /\ u \in Nat /\ v \in Nat /\ n \in Nat /\ n > 1 /\ n = u + v /\ x \in Int /\ y \in Int
      /\ x * u + y * v = 1 /\ optEnd - start = n * g
  BY BlocksInUnits
<1>2. c \in Int /\ q \in Int
  BY <1>1 DEF BlockPlaces
<1>3. PICK k \in Int : q = c + k * g
  BY DEF Apart
<1>4. PICK h \in Int : h = k * (y - x)
  BY <1>1
<1>5. PICK t \in Int : \E j \in 0 .. n - 1 : h = t * n + j
  <2>1. n \in Nat /\ n > 0
    BY <1>1
  <2> QED
    BY <2>1, Remainder
<1>6. PICK j \in 0 .. n - 1 : h = t * n + j
  BY <1>5
<1>7. k = k * x * n + h * v
  <2>1. k * (x * u + y * v) = k
    BY <1>1
  <2>2. k * (x * (n - v) + y * v) = k * x * n + (k * (y - x)) * v
    BY <1>1
  <2>3. u = n - v
    BY <1>1
  <2> QED
    BY <1>4, <2>1, <2>2, <2>3
<1>8. k = (k * x + t * v) * n + j * v
  <2>1. (t * n + j) * v = (t * v) * n + j * v
    BY <1>1, <1>6
  <2>2. PICK s \in Int : s = k * x
    BY <1>1
  <2>3. PICK w, z \in Int : w = t * v /\ z = j * v
    BY <1>1, <1>6
  <2>4. k = s * n + w * n + z
    BY <1>1, <1>6, <1>7, <2>1, <2>2, <2>3
  <2>5. (s + w) * n = s * n + w * n
    BY <1>1
  <2> QED
    BY <1>1, <2>2, <2>3, <2>4, <2>5
<1>9. PICK s \in Int : s = k * x + t * v
  BY <1>1, <1>6
<1>10. k * g = s * (n * g) + j * (v * g)
  <2>1. (s * n + j * v) * g = s * (n * g) + j * (v * g)
    BY <1>1, <1>6
  <2> QED
    BY <1>8, <1>9, <2>1
<1>11. j \in 0 .. n
  BY <1>1, <1>6
<1>12. pos[j] \in BlockPlaces(start, optEnd)
  BY <1>11, MovesFrom
<1>13. PICK l \in Int : pos[j] = c + j * (v * g) - l * (n * g)
  BY <1>11, MovesFrom
<1>14. PICK m, z \in Int : m = n * g /\ optEnd - start = m /\ z = j * (v * g)
  BY <1>1, <1>6
<1>15. PICK w \in Int : w = (s + l) * m
  OBVIOUS
<1>16. s * m + l * m = (s + l) * m
  OBVIOUS
<1>17. q - pos[j] = w
  <2>1. PICK o, r \in Int : o = s * m /\ r = l * m
    OBVIOUS
  <2>2. q = c + (o + z)
    BY <1>3, <1>10, <1>14, <2>1
  <2>3. pos[j] = c + z - r
    BY <1>13, <1>14, <2>1
  <2>4. w = o + r
    BY <1>15, <1>16, <2>1
  <2> QED
    BY <1>2, <2>2, <2>3, <2>4
<1>18. w < m /\ - m < w /\ m > 0
  BY <1>1, <1>2, <1>12, <1>14, <1>17 DEF BlockPlaces
<1>19. PICK r \in Int : r = s + l
  OBVIOUS
<1>20. r = 0
  BY <1>15, <1>18, <1>19, Small
<1>21. w = 0
  BY <1>14, <1>15, <1>19, <1>20
<1>22. pos[j] \in Int
  BY <1>1, <1>12 DEF BlockPlaces
<1> QED
  BY <1>2, <1>6, <1>17, <1>21, <1>22

LEMMA CycleSteps ==
  ASSUME NEW words, NEW c, NEW n \in Nat, NEW start, NEW end, NEW optEnd
  PROVE  \E st : /\ st[0] = [words |-> words, pos |-> c]
                 /\ \A j \in 1 .. n : st[j] = Move(st[j - 1], c, start, end, optEnd)
                 /\ Cycle(words, c, n, start, end, optEnd) = st[n].words
<1> DEFINE first == [words |-> words, pos |-> c]
           T == {m \in 0 .. n : \E f : f = [i \in 0 .. m |->
                   IF i = 0 THEN first ELSE Move(f[i - 1], c, start, end, optEnd)]}
           loop[i \in 0 .. n] == IF i = 0 THEN first ELSE Move(loop[i - 1], c, start, end, optEnd)
<1>1. Cycle(words, c, n, start, end, optEnd) = loop[n].words
  BY DEF Cycle
<1>2. 0 \in T
  <2> HIDE DEF first
  <2> DEFINE f == [i \in 0 .. 0 |-> first]
  <2>1. f = [i \in 0 .. 0 |-> IF i = 0 THEN first ELSE Move(f[i - 1], c, start, end, optEnd)]
    OBVIOUS
  <2> HIDE DEF f
  <2>2. \E g : g = [i \in 0 .. 0 |->
                      IF i = 0 THEN first ELSE Move(g[i - 1], c, start, end, optEnd)]
    BY <2>1
  <2> QED
    BY <2>2
<1>3. ASSUME NEW m \in 1 .. n, m - 1 \in T PROVE m \in T
  <2> HIDE DEF first
  <2>1. PICK f : f = [i \in 0 .. m - 1 |->
                        IF i = 0 THEN first ELSE Move(f[i - 1], c, start, end, optEnd)]
    BY <1>3
  <2> DEFINE g == [i \in 0 .. m |->
                     IF i <= m - 1 THEN f[i] ELSE Move(f[m - 1], c, start, end, optEnd)]
  <2>2. g = [i \in 0 .. m |-> IF i = 0 THEN first ELSE Move(g[i - 1], c, start, end, optEnd)]
    BY <2>1
  <2> HIDE DEF g
  <2>3. \E h : h = [i \in 0 .. m |->
                      IF i = 0 THEN first ELSE Move(h[i - 1], c, start, end, optEnd)]
    BY <2>2
  <2> QED
    BY <2>3
<1>4. n \in T
  <2> HIDE DEF T
  <2>1. \A i \in 0 .. n : i \in T
    BY <1>2, <1>3, Along
  <2> QED
    BY <2>1
<1>5. loop = [i \in 0 .. n |-> IF i = 0 THEN first ELSE Move(loop[i - 1], c, start, end, optEnd)]
  <2> HIDE DEF first
  <2> QED
    BY <1>4
<1> HIDE DEF loop
<1>6. loop[0] = first /\ \A i \in 1 .. n : loop[i] = Move(loop[i - 1], c, start, end, optEnd)
  <2> HIDE DEF first
  <2> QED
    BY <1>5
<1> QED
  BY <1>1, <1>6

MovedOn(after, words, c, D, start, end, optEnd, g) ==
  /\ \A q \in BlockPlaces(start, optEnd) :
       Apart(c, q, g) => after[PlaceAfter(q, start, end, optEnd)] = words[q]
  /\ \A q \in D : ~(q \in BlockPlaces(start, optEnd) /\ Apart(c, q, g)) => after[q] = words[q]

(* A whole cycle: each word on it is where the next place was.              *)
LEMMA CycleMoves ==
  ASSUME NEW start, NEW end, NEW optEnd, NEW g, NEW n, NEW u, NEW v, NEW x, NEW y,
         Blocks(start, end, optEnd, g, n, u, v, x, y), NEW c \in BlockPlaces(start, optEnd),
         NEW D, BlockPlaces(start, optEnd) \subseteq D, NEW S, NEW words \in [D -> S]
  PROVE  /\ Cycle(words, c, n, start, end, optEnd) \in [D -> S]
         /\ MovedOn(Cycle(words, c, n, start, end, optEnd), words, c, D, start, end, optEnd, g)
<1>0. PICK after : after = Cycle(words, c, n, start, end, optEnd)
  OBVIOUS
<1>1. n \in Nat /\ n > 1
  BY BlocksInUnits
<1>2. PICK st : /\ st[0] = [words |-> words, pos |-> c]
                /\ \A j \in 1 .. n : st[j] = Move(st[j - 1], c, start, end, optEnd)
                /\ after = st[n].words
  BY <1>0, <1>1, CycleSteps
<1>3. PICK pos, w : pos = [j \in 0 .. n |-> st[j].pos] /\ w = [j \in 0 .. n |-> st[j].words]
  OBVIOUS
<1>4. ASSUME NEW j \in 1 .. n
      PROVE  /\ pos[j] = PlaceAfter(pos[j - 1], start, end, optEnd)
             /\ w[j] = Swap(w[j - 1], pos[j], c)
  <2>1. st[j] = Move(st[j - 1], c, start, end, optEnd)
    BY <1>2
  <2>2. st[j] = [words |-> Swap(st[j - 1].words, PlaceAfter(st[j - 1].pos, start, end, optEnd), c),
                 pos |-> PlaceAfter(st[j - 1].pos, start, end, optEnd)]
    BY <2>1 DEF Move, PlaceAfter
  <2>3. pos[j] = st[j].pos /\ pos[j - 1] = st[j - 1].pos
        /\ w[j] = st[j].words /\ w[j - 1] = st[j - 1].words
    <3>1. j \in 0 .. n /\ j - 1 \in 0 .. n
      BY <1>1
    <3> QED
      BY <1>3, <3>1
  <2> QED
    BY <2>2, <2>3
<1>5. pos[0] = c /\ w[0] = words /\ after = w[n]
  BY <1>1, <1>2, <1>3
<1>6. Orbit(pos, c, n, start, end, optEnd)
  BY <1>4, <1>5 DEF Orbit
<1>7. \A j \in 0 .. n : pos[j] \in BlockPlaces(start, optEnd)
  BY <1>6, MovesFrom
<1>8. /\ pos[n] = c
      /\ \A i, j \in 0 .. n : i < j /\ pos[i] = pos[j] => i = 0 /\ j = n
  BY <1>6, CycleCloses
<1> DEFINE At(j) == j <= n - 1 =>
             /\ w[j] \in [D -> S] /\ w[j][c] = words[pos[j]]
             /\ \A m \in 1 .. j : w[j][pos[m]] = words[pos[m - 1]]
             /\ \A q \in D : (\A m \in 0 .. j : q # pos[m]) => w[j][q] = words[q]
           T == {j \in 0 .. n : At(j)}
<1>9. 0 \in T
  <2>1. At(0)
    BY <1>5
  <2> HIDE DEF At
  <2> QED
    BY <1>1, <2>1
<1>10. ASSUME NEW j \in 1 .. n, j - 1 \in T PROVE j \in T
  <2> SUFFICES ASSUME j <= n - 1 PROVE At(j)
    OBVIOUS
  <2>1. PICK p : p = pos[j]
    OBVIOUS
  <2>2. PICK old, now : old = w[j - 1] /\ now = w[j]
    OBVIOUS
  <2>3. /\ old \in [D -> S] /\ old[c] = words[pos[j - 1]]
        /\ \A m \in 1 .. j - 1 : old[pos[m]] = words[pos[m - 1]]
        /\ \A q \in D : (\A m \in 0 .. j - 1 : q # pos[m]) => old[q] = words[q]
    <3>1. At(j - 1)
      <4> HIDE DEF At
      <4> QED
        BY <1>10
    <3>2. j - 1 <= n - 1
      BY <1>1
    <3> QED
      BY <2>2, <3>1, <3>2
  <2>4. now = Swap(old, p, c) /\ p \in D /\ c \in D
    BY <1>4, <1>7, <2>1, <2>2
  <2>5. /\ now \in [D -> S] /\ now[p] = old[c] /\ now[c] = old[p]
        /\ \A q \in D : q # p /\ q # c => now[q] = old[q]
    <3>2. /\ Swap(old, p, c) \in [D -> S]
          /\ Swap(old, p, c)[p] = old[c] /\ Swap(old, p, c)[c] = old[p]
          /\ \A q \in D : q # p /\ q # c => Swap(old, p, c)[q] = old[q]
      <4>1. old \in [D -> S]
        BY <2>3
      <4>2. p \in D /\ c \in D
        BY <2>4
      <4> QED
        BY <4>1, <4>2 DEF Swap
    <3> QED
      BY <2>4, <3>2
  <2>6. \A m \in 0 .. j - 1 : p # pos[m]
    BY <1>1, <1>8, <2>1
  <2>7. now[c] = words[p]
    BY <2>3, <2>4, <2>5, <2>6
  <2>8. ASSUME NEW m \in 1 .. j PROVE now[pos[m]] = words[pos[m - 1]]
    <3>1. CASE m = j
      BY <2>1, <2>3, <2>5, <3>1
    <3>2. CASE m < j
      <4>1. m \in 1 .. j - 1 /\ m \in 0 .. n /\ 0 \in 0 .. n /\ 0 < m
        BY <1>1, <3>2
      <4>2. pos[m] # p
        BY <2>6, <4>1
      <4>3. pos[m] # c
        <5>1. pos[0] = pos[m] => m = n
          BY <1>8, <4>1
        <5>2. m # n
          BY <3>2
        <5> QED
          BY <1>5, <5>1, <5>2
      <4>4. pos[m] \in D
        BY <1>7, <4>1
      <4>5. now[pos[m]] = old[pos[m]]
        BY <2>5, <4>2, <4>3, <4>4
      <4> QED
        BY <2>3, <4>1, <4>5
    <3> QED
      BY <3>1, <3>2
  <2>9. ASSUME NEW q \in D, \A m \in 0 .. j : q # pos[m] PROVE now[q] = words[q]
    <3>1. 0 \in 0 .. j /\ j \in 0 .. j /\ \A m \in 0 .. j - 1 : m \in 0 .. j
      OBVIOUS
    <3>2. q # c /\ q # p
      BY <1>5, <2>1, <2>9, <3>1
    <3>3. now[q] = old[q]
      BY <2>5, <3>2
    <3> QED
      BY <2>3, <2>9, <3>1, <3>3
  <2> QED
    BY <2>1, <2>2, <2>5, <2>7, <2>8, <2>9
<1>11. \A j \in 0 .. n : j \in T
  <2> HIDE DEF T
  <2> QED
    BY <1>1, <1>9, <1>10, Along
<1>12. PICK k \in 0 .. n : k = n - 1 /\ k + 1 = n /\ k \in 1 .. n - 1
  BY <1>1
<1>13. PICK old : old = w[k]
  OBVIOUS
<1>14. /\ old \in [D -> S] /\ old[c] = words[pos[k]]
       /\ \A m \in 1 .. k : old[pos[m]] = words[pos[m - 1]]
       /\ \A q \in D : (\A m \in 0 .. k : q # pos[m]) => old[q] = words[q]
  BY <1>11, <1>12, <1>13
<1>15. after = Swap(old, c, c)
  BY <1>1, <1>4, <1>5, <1>8, <1>12, <1>13
<1>16. after \in [D -> S] /\ after[c] = old[c] /\ \A q \in D : q # c => after[q] = old[q]
  <2>1. old \in [D -> S] /\ c \in D
    BY <1>14
  <2>2. /\ Swap(old, c, c) \in [D -> S] /\ Swap(old, c, c)[c] = old[c]
        /\ \A q \in D : q # c => Swap(old, c, c)[q] = old[q]
    BY <2>1 DEF Swap
  <2> QED
    BY <1>15, <2>2
<1>17. ASSUME NEW q \in D PROVE after[q] = old[q]
  BY <1>16
<1>18. ASSUME NEW q \in BlockPlaces(start, optEnd), Apart(c, q, g)
       PROVE  after[PlaceAfter(q, start, end, optEnd)] = words[q]
  <2>1. PICK j \in 0 .. n - 1 : q = pos[j]
    BY <1>6, <1>18, CycleCovers
  <2>2. PICK m \in 1 .. n : m = j + 1 /\ j = m - 1
    BY <1>1
  <2>3. pos[m] = PlaceAfter(q, start, end, optEnd)
    BY <1>4, <2>1, <2>2
  <2>4. pos[m] \in D
    BY <1>7
  <2>5. CASE m = n
    <3>1. j = k
      BY <1>12, <2>2, <2>5
    <3> QED
      BY <1>8, <1>14, <1>17, <2>1, <2>3, <2>4, <2>5, <3>1
  <2>6. CASE m # n
    <3>1. m \in 1 .. k
      BY <1>1, <1>12, <2>6
    <3>2. old[pos[m]] = words[pos[m - 1]]
      BY <1>14, <3>1
    <3> QED
      BY <1>17, <2>1, <2>2, <2>3, <2>4, <3>2
  <2> QED
    BY <2>5, <2>6
<1>19. ASSUME NEW q \in D, ~(q \in BlockPlaces(start, optEnd) /\ Apart(c, q, g))
       PROVE  after[q] = words[q]
  <2>1. ASSUME NEW m \in 0 .. k PROVE q # pos[m]
    <3>1. m \in 0 .. n
      BY <1>1, <1>12
    <3>2. pos[m] \in BlockPlaces(start, optEnd)
      BY <1>7, <3>1
    <3>3. Apart(c, pos[m], g)
      BY <1>6, <3>1, OrbitApart
    <3> QED
      BY <1>19, <3>2, <3>3
  <2> QED
    BY <1>14, <1>17, <2>1
<1> QED
  BY <1>0, <1>16, <1>18, <1>19 DEF MovedOn

Permuting(st, words, start, end, optEnd, g, n) ==
  /\ st[0] = words
  /\ \A i \in 1 .. g : st[i] = Cycle(st[i - 1], end + (i - 1), n, start, end, optEnd)

LEMMA PermuteSteps ==
  ASSUME NEW words, NEW start, NEW end, NEW optEnd, Gcd(end - start, optEnd - end) \in Nat
  PROVE  \E st : LET g == Gcd(end - start, optEnd - end) IN
           /\ Permuting(st, words, start, end, optEnd, g, (optEnd - start) \div g)
           /\ PermuteArgs(start, end, optEnd, words) = st[g]
<1> DEFINE g == Gcd(end - start, optEnd - end)
           n == (optEnd - start) \div g
           Turn(w, i) == Cycle(w, end + (i - 1), n, start, end, optEnd)
           T == {m \in 0 .. g : \E f : f = [i \in 0 .. m |->
                   IF i = 0 THEN words ELSE Turn(f[i - 1], i)]}
           loop[i \in 0 .. g] == IF i = 0 THEN words ELSE Turn(loop[i - 1], i)
<1>1. PermuteArgs(start, end, optEnd, words) = loop[g]
  BY DEF PermuteArgs
<1>0. g \in Nat
  OBVIOUS
<1> HIDE DEF g, n
<1>2. 0 \in T
  <2> HIDE DEF Turn
  <2> DEFINE f == [i \in 0 .. 0 |-> words]
  <2>1. f = [i \in 0 .. 0 |-> IF i = 0 THEN words ELSE Turn(f[i - 1], i)]
    OBVIOUS
  <2> HIDE DEF f
  <2>2. \E h : h = [i \in 0 .. 0 |-> IF i = 0 THEN words ELSE Turn(h[i - 1], i)]
    BY <2>1
  <2> QED
    BY <1>0, <2>2
<1>3. ASSUME NEW m \in 1 .. g, m - 1 \in T PROVE m \in T
  <2> HIDE DEF Turn
  <2>1. PICK f : f = [i \in 0 .. m - 1 |-> IF i = 0 THEN words ELSE Turn(f[i - 1], i)]
    BY <1>3
  <2> DEFINE h == [i \in 0 .. m |-> IF i <= m - 1 THEN f[i] ELSE Turn(f[m - 1], m)]
  <2>2. h = [i \in 0 .. m |-> IF i = 0 THEN words ELSE Turn(h[i - 1], i)]
    BY <1>0, <2>1
  <2> HIDE DEF h
  <2>3. \E k : k = [i \in 0 .. m |-> IF i = 0 THEN words ELSE Turn(k[i - 1], i)]
    BY <2>2
  <2> QED
    BY <2>3
<1>4. g \in T
  <2> HIDE DEF T
  <2>1. \A i \in 0 .. g : i \in T
    BY <1>0, <1>2, <1>3, Along
  <2> QED
    BY <1>0, <2>1
<1>5. loop = [i \in 0 .. g |-> IF i = 0 THEN words ELSE Turn(loop[i - 1], i)]
  <2> HIDE DEF Turn
  <2> QED
    BY <1>0, <1>4
<1> HIDE DEF loop
<1>6. loop[0] = words /\ \A i \in 1 .. g : loop[i] = Turn(loop[i - 1], i)
  <2> HIDE DEF Turn
  <2> QED
    BY <1>0, <1>5
<1>7. Permuting(loop, words, start, end, optEnd, g, n)
  BY <1>6 DEF Permuting
<1> QED
  BY <1>1, <1>7 DEF g, n

(* Each place is on one cycle.                                              *)
LEMMA OneCycle ==
  ASSUME NEW e \in Int, NEW g \in Nat, g > 0, NEW q \in Int
  PROVE  /\ \E k \in 0 .. g - 1 : Apart(e + k, q, g)
         /\ \A k, l \in 0 .. g - 1 : Apart(e + k, q, g) /\ Apart(e + l, q, g) => k = l
<1>1. \E k \in 0 .. g - 1 : Apart(e + k, q, g)
  <2>1. PICK i \in Int : i = q - e
    OBVIOUS
  <2>2. PICK t \in Int : \E k \in 0 .. g - 1 : i = t * g + k
    BY Remainder
  <2>3. PICK k \in 0 .. g - 1 : i = t * g + k
    BY <2>2
  <2>4. q = e + k + t * g
    BY <2>1, <2>3
  <2> QED
    BY <2>4 DEF Apart
<1>2. ASSUME NEW k \in 0 .. g - 1, NEW l \in 0 .. g - 1, Apart(e + k, q, g), Apart(e + l, q, g)
      PROVE  k = l
  <2>1. PICK s \in Int : q = e + k + s * g
    BY <1>2 DEF Apart
  <2>2. PICK t \in Int : q = e + l + t * g
    BY <1>2 DEF Apart
  <2>3. PICK r \in Int : r = t - s
    OBVIOUS
  <2>4. (t - s) * g = t * g - s * g
    OBVIOUS
  <2>5. r * g = k - l
    <3>1. PICK o, w \in Int : o = s * g /\ w = t * g
      OBVIOUS
    <3>2. e + k + o = e + l + w
      BY <2>1, <2>2, <3>1
    <3>3. w - o = k - l
      BY <3>2
    <3> QED
      BY <2>3, <2>4, <3>1, <3>3
  <2>6. r = 0
    <3>1. r * g < g /\ - g < r * g /\ g \in Int
      BY <2>5
    <3> QED
      BY <3>1, Small
  <2> QED
    BY <2>5, <2>6
<1> QED
  BY <1>1, <1>2

BlocksExchanged(S, words, after, start, end, optEnd) ==
  /\ after \in Seq(S) /\ Len(after) = Len(words)
  /\ \A q \in start .. end - 1 : after[q + (optEnd - end)] = words[q]
  /\ \A q \in end .. optEnd - 1 : after[q - (end - start)] = words[q]
  /\ \A q \in 1 .. Len(words) : q \notin start .. optEnd - 1 => after[q] = words[q]

(* permute_args() exchanges the two blocks, "keeping the same order of     *)
(* arguments in each block" (argtable3.c:1453), and touches nothing else:   *)
(* the cycles that it walks meet every place of the blocks, and none twice. *)
THEOREM PermuteArgsExchanges ==
  ASSUME NEW S, NEW words \in Seq(S), NEW start \in Nat, NEW end \in Nat, NEW optEnd \in Nat,
         1 <= start, start < end, end < optEnd, optEnd <= Len(words) + 1
  PROVE  BlocksExchanged(S, words, PermuteArgs(start, end, optEnd, words), start, end, optEnd)
<1>0. PICK after : after = PermuteArgs(start, end, optEnd, words)
  OBVIOUS
<1>1. PICK a, b \in Nat : a = end - start /\ b = optEnd - end /\ a > 0 /\ b > 0 /\ optEnd - start = a + b
  <2>1. end - start \in Nat /\ optEnd - end \in Nat /\ optEnd - start = (end - start) + (optEnd - end)
    OBVIOUS
  <2> QED
    BY <2>1
<1>2. PICK g, n : g = Gcd(a, b) /\ n = (a + b) \div g
  OBVIOUS
<1>3. /\ g \in Nat /\ g > 0 /\ g <= b
      /\ \E u, v, x, y \in Int : Shares(a, b, g, n, u, v, x, y)
  BY <1>1, <1>2, SharesOfGcd, Zenon
<1>4. PICK u, v, x, y \in Int : Shares(a, b, g, n, u, v, x, y)
  BY <1>3
<1>5. Blocks(start, end, optEnd, g, n, u, v, x, y)
  BY <1>1, <1>3, <1>4 DEF Blocks
<1>6. PICK D : D = 1 .. Len(words)
  OBVIOUS
<1>7. BlockPlaces(start, optEnd) \subseteq D /\ words \in [D -> S]
  BY <1>6 DEF BlockPlaces
<1>8. PICK st : /\ Permuting(st, words, start, end, optEnd, g, n)
                /\ PermuteArgs(start, end, optEnd, words) = st[g]
  <2>1. Gcd(end - start, optEnd - end) = g /\ (optEnd - start) \div g = n
    BY <1>1, <1>2
  <2>2. Gcd(end - start, optEnd - end) \in Nat
    BY <1>3, <2>1
  <2>3. PICK st : LET h == Gcd(end - start, optEnd - end) IN
          /\ Permuting(st, words, start, end, optEnd, h, (optEnd - start) \div h)
          /\ PermuteArgs(start, end, optEnd, words) = st[h]
    BY <2>2, PermuteSteps, Zenon
  <2> QED
    BY <2>1, <2>3
<1> DEFINE On(k, q) == Apart(end + k, q, g)
           To(q) == PlaceAfter(q, start, end, optEnd)
           At(i) == /\ st[i] \in [D -> S]
                    /\ \A q \in BlockPlaces(start, optEnd) : \A k \in 0 .. g - 1 : On(k, q) =>
                         st[i][IF k < i THEN To(q) ELSE q] = words[q]
                    /\ \A q \in D : q \notin BlockPlaces(start, optEnd) => st[i][q] = words[q]
           T == {i \in 0 .. g : At(i)}
<1>9. \A q \in BlockPlaces(start, optEnd) :
        /\ To(q) \in BlockPlaces(start, optEnd) /\ To(q) \in Int /\ q \in Int
        /\ Apart(q, To(q), g)
  <2>1. BlockPlaces(start, optEnd) \subseteq Int
    BY DEF BlockPlaces
  <2> HIDE DEF To
  <2>2. \A q \in BlockPlaces(start, optEnd) : To(q) \in BlockPlaces(start, optEnd) /\ Apart(q, To(q), g)
    BY <1>5, PlaceAfterIn DEF To
  <2> QED
    BY <2>1, <2>2
<1>19. \A q \in Int : /\ \E k \in 0 .. g - 1 : On(k, q)
                     /\ \A k, l \in 0 .. g - 1 : On(k, q) /\ On(l, q) => k = l
  <2>1. end \in Int
    OBVIOUS
  <2> QED
    BY <1>3, <2>1, OneCycle
<1>10. 0 \in T
  <2>1. At(0)
    BY <1>7, <1>8 DEF Permuting
  <2> HIDE DEF At
  <2> QED
    BY <1>3, <2>1
<1>11. ASSUME NEW i \in 1 .. g, i - 1 \in T PROVE i \in T
  <2>1. PICK old, now, k, c : old = st[i - 1] /\ now = st[i] /\ k = i - 1 /\ c = end + k
    OBVIOUS
  <2>2. k \in 0 .. g - 1 /\ i = k + 1 /\ c \in BlockPlaces(start, optEnd)
    BY <1>1, <1>3, <2>1 DEF BlockPlaces
  <2>3. now = Cycle(old, c, n, start, end, optEnd)
    BY <1>8, <2>1 DEF Permuting
  <2>4. /\ old \in [D -> S]
        /\ \A q \in BlockPlaces(start, optEnd) : \A l \in 0 .. g - 1 : On(l, q) =>
             old[IF l < k THEN To(q) ELSE q] = words[q]
        /\ \A q \in D : q \notin BlockPlaces(start, optEnd) => old[q] = words[q]
    <3> HIDE DEF On, To
    <3>1. At(i - 1)
      <4> HIDE DEF At
      <4> QED
        BY <1>11
    <3> QED
      BY <2>1, <3>1
  <2>5. /\ now \in [D -> S]
        /\ \A q \in BlockPlaces(start, optEnd) : On(k, q) => now[To(q)] = old[q]
        /\ \A q \in D : ~(q \in BlockPlaces(start, optEnd) /\ On(k, q)) => now[q] = old[q]
    <3>1. BlockPlaces(start, optEnd) \subseteq D /\ c \in BlockPlaces(start, optEnd) /\ old \in [D -> S]
      BY <1>7, <2>2, <2>4
    <3>2. now \in [D -> S] /\ MovedOn(now, old, c, D, start, end, optEnd, g)
      <4>1. /\ Cycle(old, c, n, start, end, optEnd) \in [D -> S]
            /\ MovedOn(Cycle(old, c, n, start, end, optEnd), old, c, D, start, end, optEnd, g)
        BY <1>5, <3>1, CycleMoves, Zenon
      <4> QED
        BY <2>3, <4>1
    <3> QED
      BY <2>1, <3>2 DEF MovedOn
  <2>6. ASSUME NEW q \in BlockPlaces(start, optEnd), NEW l \in 0 .. g - 1, On(l, q)
        PROVE  now[IF l < i THEN To(q) ELSE q] = words[q]
    <3>1. CASE l = k
      <4> HIDE DEF On, To
      <4>1. now[To(q)] = old[q]
        BY <2>5, <2>6, <3>1
      <4>2. old[q] = words[q]
        BY <2>2, <2>4, <2>6, <3>1
      <4> QED
        BY <2>2, <3>1, <4>1, <4>2
    <3>2. CASE l < k
      <4>1. On(l, To(q))
        <5>1. end + l \in Int /\ q \in Int /\ To(q) \in Int /\ g \in Int
          BY <1>3, <1>9
        <5> QED
          BY <1>9, <2>6, <5>1, ApartOn, Zenon
      <4>2. ~On(k, To(q))
        <5> HIDE DEF On, To
        <5>1. To(q) \in Int /\ k \in 0 .. g - 1 /\ k # l
          BY <1>3, <1>9, <2>2, <3>2
        <5> QED
          BY <1>19, <4>1, <5>1, Zenon
      <4> HIDE DEF On, To
      <4>3. now[To(q)] = old[To(q)]
        BY <1>7, <1>9, <2>5, <4>2
      <4>4. old[To(q)] = words[q]
        BY <2>4, <2>6, <3>2
      <4> QED
        BY <2>2, <3>2, <4>3, <4>4
    <3>3. CASE l > k
      <4>1. ~On(k, q)
        <5> HIDE DEF On, To
        <5>1. q \in Int /\ k \in 0 .. g - 1 /\ k # l
          BY <1>3, <1>9, <2>2, <3>3
        <5> QED
          BY <1>19, <2>6, <5>1, Zenon
      <4> HIDE DEF On, To
      <4>2. now[q] = old[q]
        BY <1>7, <2>5, <4>1
      <4>3. old[q] = words[q]
        BY <2>2, <2>4, <2>6, <3>3
      <4> QED
        BY <2>2, <3>3, <4>2, <4>3
    <3> QED
      BY <2>2, <3>1, <3>2, <3>3
  <2>7. \A q \in D : q \notin BlockPlaces(start, optEnd) => now[q] = words[q]
    BY <2>4, <2>5
  <2>8. At(i)
    <3> HIDE DEF On, To
    <3> QED
      BY <2>1, <2>5, <2>6, <2>7
  <2> HIDE DEF At
  <2> QED
    BY <2>8
<1>12. At(g)
  <2>1. \A i \in 0 .. g : i \in T
    <3> HIDE DEF T
    <3> QED
      BY <1>3, <1>10, <1>11, Along
  <2> HIDE DEF At
  <2> QED
    BY <1>3, <2>1
<1>13. after \in [D -> S] /\ \A q \in D : q \notin BlockPlaces(start, optEnd) => after[q] = words[q]
  BY <1>0, <1>8, <1>12
<1>14. ASSUME NEW q \in BlockPlaces(start, optEnd) PROVE after[To(q)] = words[q]
  <2>1. PICK k \in 0 .. g - 1 : On(k, q)
    BY <1>9, <1>19
  <2> HIDE DEF On, To
  <2>2. st[g][IF k < g THEN To(q) ELSE q] = words[q]
    BY <1>12, <2>1
  <2>3. k < g
    BY <1>3
  <2> QED
    BY <1>0, <1>8, <2>2, <2>3
<1>15. after \in Seq(S) /\ Len(after) = Len(words)
  BY <1>6, <1>13
<1>16. ASSUME NEW q \in start .. end - 1 PROVE after[q + (optEnd - end)] = words[q]
  <2>1. q \in BlockPlaces(start, optEnd) /\ To(q) = q + (optEnd - end)
    BY DEF BlockPlaces, PlaceAfter
  <2> QED
    BY <1>14, <2>1
<1>17. ASSUME NEW q \in end .. optEnd - 1 PROVE after[q - (end - start)] = words[q]
  <2>1. q \in BlockPlaces(start, optEnd) /\ To(q) = q - (end - start)
    BY DEF BlockPlaces, PlaceAfter
  <2> QED
    BY <1>14, <2>1
<1>18. ASSUME NEW q \in 1 .. Len(words), q \notin start .. optEnd - 1 PROVE after[q] = words[q]
  BY <1>6, <1>13, <1>18 DEF BlockPlaces
<1> QED
  BY <1>0, <1>15, <1>16, <1>17, <1>18 DEF BlocksExchanged

-----------------------------------------------------------------------------
(* What the words mean where they stand                                     *)

(* "--", or the first word that is no option where none may be skipped      *)
EndsAll(role, words, j) == \/ words[j].kind = "end" /\ role[j] = "option"
                           \/ PosixlyCorrect /\ role[j] = "other"

RoleOf(role, words, i) ==
  IF \E j \in 1 .. i - 1 : EndsAll(role, words, j) THEN "other"
  ELSE IF i > 1 /\ role[i - 1] = "option" /\ WantsNext(words[i - 1]) THEN "value"
  ELSE IF IsOption(words[i]) THEN "option" ELSE "other"

LEMMA RolesAre ==
  ASSUME NEW S, NEW words \in Seq(S)
  PROVE  \A i \in 1 .. Len(words) : Roles(words)[i] = RoleOf(Roles(words), words, i)
<1> DEFINE n == Len(words)
           T == {m \in 0 .. n : \E f : f = [i \in 1 .. m |-> RoleOf(f, words, i)]}
<1>1. n \in Nat /\ DOMAIN words = 1 .. n
  OBVIOUS
<1>2. Roles(words) = CHOOSE f : f = [i \in DOMAIN words |-> RoleOf(f, words, i)]
  BY DEF Roles, RoleOf, EndsAll
<1> HIDE DEF n
<1>3. 0 \in T
  <2>1. PICK f : f = [i \in 1 .. 0 |-> RoleOf(i, words, i)]
    OBVIOUS
  <2>2. f = [i \in 1 .. 0 |-> RoleOf(f, words, i)]
    BY <2>1
  <2>3. \E h : h = [i \in 1 .. 0 |-> RoleOf(h, words, i)]
    BY <2>2, Zenon
  <2>4. 0 \in 0 .. n
    BY <1>1
  <2> QED
    BY <2>3, <2>4, Zenon
<1>4. ASSUME NEW m \in 1 .. n, m - 1 \in T PROVE m \in T
  <2>1. PICK f : f = [i \in 1 .. m - 1 |-> RoleOf(f, words, i)]
    BY <1>4
  <2>2. PICK g : g = [i \in 1 .. m |-> IF i <= m - 1 THEN f[i] ELSE RoleOf(f, words, m)]
    OBVIOUS
  <2>3. \A i \in 1 .. m - 1 : g[i] = f[i]
    BY <1>1, <2>2
  <2>4. ASSUME NEW i \in 1 .. m PROVE RoleOf(g, words, i) = RoleOf(f, words, i)
    <3>1. \A j \in 1 .. i - 1 : g[j] = f[j]
      BY <1>1, <2>3
    <3>2. i > 1 => g[i - 1] = f[i - 1]
      BY <3>1
    <3>3. (\E j \in 1 .. i - 1 : EndsAll(g, words, j))
            <=> (\E j \in 1 .. i - 1 : EndsAll(f, words, j))
      BY <3>1 DEF EndsAll
    <3> QED
      BY <3>2, <3>3 DEF RoleOf
  <2>5. ASSUME NEW i \in 1 .. m PROVE g[i] = RoleOf(g, words, i)
    <3>1. CASE i <= m - 1
      <4>1. i \in 1 .. m - 1
        BY <1>1, <3>1
      <4>2. f[i] = RoleOf(f, words, i)
        BY <2>1, <4>1
      <4> QED
        BY <2>3, <2>4, <4>1, <4>2
    <3>2. CASE i = m
      <4>1. g[m] = RoleOf(f, words, m)
        BY <1>1, <2>2
      <4> QED
        BY <2>4, <3>2, <4>1
    <3> QED
      BY <1>1, <3>1, <3>2
  <2>6. g = [i \in 1 .. m |-> RoleOf(g, words, i)]
    <3>1. g = [i \in 1 .. m |-> g[i]]
      BY <2>2
    <3> QED
      BY <2>5, <3>1
  <2> QED
    BY <1>1, <2>6
<1>5. n \in T
  <2> HIDE DEF T
  <2>1. \A i \in 0 .. n : i \in T
    BY <1>1, <1>3, <1>4, Along
  <2> QED
    BY <1>1, <2>1
<1>6. \E f : f = [i \in DOMAIN words |-> RoleOf(f, words, i)]
  BY <1>1, <1>5
<1>7. Roles(words) = [i \in DOMAIN words |-> RoleOf(Roles(words), words, i)]
  BY <1>2, <1>6
<1> QED
  BY <1>1, <1>7 DEF n

(* The other words, one by one *)
Kept(st, words) ==
  /\ st[0] = <<>>
  /\ \A i \in 1 .. Len(words) :
       st[i] = IF Roles(words)[i] = "other" THEN Append(st[i - 1], words[i]) ELSE st[i - 1]

LEMMA OthersSteps ==
  ASSUME NEW words, Len(words) \in Nat
  PROVE  \E st : Kept(st, words) /\ Others(words) = st[Len(words)]
<1> DEFINE n == Len(words)
           role == Roles(words)
           Turn(s, i) == IF role[i] = "other" THEN Append(s, words[i]) ELSE s
           T == {m \in 0 .. n : \E f : f = [i \in 0 .. m |->
                   IF i = 0 THEN <<>> ELSE Turn(f[i - 1], i)]}
           loop[i \in 0 .. n] == IF i = 0 THEN <<>> ELSE Turn(loop[i - 1], i)
<1>1. Others(words) = loop[n]
  <2> HIDE DEF role
  <2> QED
    BY DEF Others, role
<1>0. n \in Nat
  OBVIOUS
<1> HIDE DEF n, Turn
<1>2. 0 \in T
  <2> DEFINE f == [i \in 0 .. 0 |-> <<>>]
  <2>1. f = [i \in 0 .. 0 |-> IF i = 0 THEN <<>> ELSE Turn(f[i - 1], i)]
    OBVIOUS
  <2> HIDE DEF f
  <2>2. \E h : h = [i \in 0 .. 0 |-> IF i = 0 THEN <<>> ELSE Turn(h[i - 1], i)]
    BY <2>1
  <2> QED
    BY <1>0, <2>2
<1>3. ASSUME NEW m \in 1 .. n, m - 1 \in T PROVE m \in T
  <2>1. PICK f : f = [i \in 0 .. m - 1 |-> IF i = 0 THEN <<>> ELSE Turn(f[i - 1], i)]
    BY <1>3
  <2> DEFINE h == [i \in 0 .. m |-> IF i <= m - 1 THEN f[i] ELSE Turn(f[m - 1], m)]
  <2>2. h = [i \in 0 .. m |-> IF i = 0 THEN <<>> ELSE Turn(h[i - 1], i)]
    BY <1>0, <2>1
  <2> HIDE DEF h
  <2>3. \E k : k = [i \in 0 .. m |-> IF i = 0 THEN <<>> ELSE Turn(k[i - 1], i)]
    BY <2>2
  <2> QED
    BY <2>3
<1>4. n \in T
  <2> HIDE DEF T
  <2>1. \A i \in 0 .. n : i \in T
    BY <1>0, <1>2, <1>3, Along
  <2> QED
    BY <1>0, <2>1
<1>5. loop = [i \in 0 .. n |-> IF i = 0 THEN <<>> ELSE Turn(loop[i - 1], i)]
  BY <1>0, <1>4
<1> HIDE DEF loop
<1>6. loop[0] = <<>> /\ \A i \in 1 .. n : loop[i] = Turn(loop[i - 1], i)
  BY <1>0, <1>5
<1>7. Kept(loop, words)
  BY <1>6 DEF Kept, Turn, n
<1> QED
  BY <1>1, <1>7 DEF n

LEMMA TwoOf ==
  ASSUME NEW U, IsFiniteSet(U)
  PROVE  Cardinality(U) \in Nat /\ (Cardinality(U) > 1 <=> \E i, j \in U : i # j)
<1>1. Cardinality(U) \in Nat
  BY FS_CardinalityType
<1>2. ASSUME NEW i \in U, NEW j \in U, i # j PROVE Cardinality(U) > 1
  <2>1. IsFiniteSet({i}) /\ Cardinality({i}) = 1
    BY FS_Singleton
  <2>2. IsFiniteSet({i} \cup {j}) /\ Cardinality({i} \cup {j}) = 2
    <3>1. /\ IsFiniteSet({i} \cup {j})
          /\ Cardinality({i} \cup {j}) =
               IF j \in {i} THEN Cardinality({i}) ELSE Cardinality({i}) + 1
      BY <2>1, FS_AddElement
    <3> QED
      BY <1>2, <2>1, <3>1
  <2>3. {i} \cup {j} \in SUBSET U
    OBVIOUS
  <2>4. Cardinality({i} \cup {j}) <= Cardinality(U)
    BY <2>3, FS_Subset
  <2> QED
    BY <1>1, <2>2, <2>4
<1>3. ASSUME Cardinality(U) > 1 PROVE \E i, j \in U : i # j
  <2>1. U # {}
    BY <1>1, <1>3, FS_EmptySet
  <2>2. PICK i : i \in U
    BY <2>1
  <2>3. U # {i}
    BY <1>1, <1>3, FS_Singleton
  <2> QED
    BY <2>2, <2>3
<1> QED
  BY <1>1, <1>2, <1>3

LEMMA KeptWords ==
  ASSUME NEW S, NEW words \in Seq(S), NEW st, Kept(st, words)
  PROVE  \A i \in 0 .. Len(words) :
           /\ st[i] \in Seq(S)
           /\ Len(st[i]) = Cardinality({j \in 1 .. i : Roles(words)[j] = "other"})
           /\ \A p \in 1 .. Len(st[i]) :
                \E j \in 1 .. i : Roles(words)[j] = "other" /\ st[i][p] = words[j]
<1> DEFINE U(i) == {j \in 1 .. i : Roles(words)[j] = "other"}
           At(i) == /\ st[i] \in Seq(S)
                    /\ Len(st[i]) = Cardinality(U(i))
                    /\ \A p \in 1 .. Len(st[i]) :
                         \E j \in 1 .. i : Roles(words)[j] = "other" /\ st[i][p] = words[j]
           T == {i \in 0 .. Len(words) : At(i)}
<1>1. Len(words) \in Nat
  OBVIOUS
<1>2. 0 \in T
  <2>1. U(0) = {}
    OBVIOUS
  <2>2. Cardinality(U(0)) = 0
    BY <2>1, FS_EmptySet
  <2> HIDE DEF U
  <2>3. At(0)
    BY <2>2 DEF Kept
  <2> HIDE DEF At
  <2> QED
    BY <1>1, <2>3
<1>3. ASSUME NEW i \in 1 .. Len(words), i - 1 \in T PROVE i \in T
  <2>1. PICK k, old, now : k = i - 1 /\ old = st[i - 1] /\ now = st[i]
    OBVIOUS
  <2>2. /\ old \in Seq(S) /\ Len(old) = Cardinality(U(k))
        /\ \A p \in 1 .. Len(old) :
             \E j \in 1 .. k : Roles(words)[j] = "other" /\ old[p] = words[j]
    <3> HIDE DEF U
    <3> QED
      BY <1>3, <2>1
  <2>3. k \in Nat /\ i = k + 1 /\ i \in Nat
    BY <2>1
  <2>4. IsFiniteSet(U(k))
    <3>1. IsFiniteSet(1 .. k) /\ U(k) \in SUBSET (1 .. k)
      BY <2>3, FS_Interval
    <3> QED
      BY <3>1, FS_Subset
  <2>5. now = IF Roles(words)[i] = "other" THEN Append(old, words[i]) ELSE old
    BY <2>1 DEF Kept
  <2>6. CASE Roles(words)[i] = "other"
    <3>1. U(i) = U(k) \cup {i} /\ ~(i \in U(k))
      BY <2>3, <2>6
    <3>2. Cardinality(U(i)) = Cardinality(U(k)) + 1
      BY <2>4, <3>1, FS_AddElement
    <3>3. now = Append(old, words[i]) /\ words[i] \in S
      BY <2>5, <2>6
    <3>4. now \in Seq(S) /\ Len(now) = Cardinality(U(i))
      <4> HIDE DEF U
      <4> QED
        BY <2>2, <3>2, <3>3
    <3>5. ASSUME NEW p \in 1 .. Len(now)
          PROVE  \E j \in 1 .. i : Roles(words)[j] = "other" /\ now[p] = words[j]
      <4>1. CASE p = Len(now)
        <5>1. now[p] = words[i]
          BY <2>2, <3>3, <4>1
        <5> QED
          BY <2>3, <2>6, <5>1
      <4>2. CASE p # Len(now)
        <5>1. p \in 1 .. Len(old) /\ now[p] = old[p]
          BY <2>2, <3>3, <4>2
        <5>2. PICK j \in 1 .. k : Roles(words)[j] = "other" /\ old[p] = words[j]
          BY <2>2, <5>1
        <5> QED
          BY <2>3, <5>1, <5>2
      <4> QED
        BY <4>1, <4>2
    <3>6. At(i)
      <4> HIDE DEF U
      <4> QED
        BY <2>1, <3>4, <3>5
    <3> HIDE DEF At
    <3> QED
      BY <3>6
  <2>7. CASE Roles(words)[i] # "other"
    <3>1. U(i) = U(k)
      BY <2>3, <2>7
    <3>2. now = old
      BY <2>5, <2>7
    <3>3. ASSUME NEW p \in 1 .. Len(now)
          PROVE  \E j \in 1 .. i : Roles(words)[j] = "other" /\ now[p] = words[j]
      <4>1. PICK j \in 1 .. k : Roles(words)[j] = "other" /\ old[p] = words[j]
        BY <2>2, <3>2
      <4> QED
        BY <2>3, <3>2, <4>1
    <3>4. At(i)
      <4> HIDE DEF U
      <4> QED
        BY <2>1, <2>2, <3>1, <3>2, <3>3
    <3> HIDE DEF At
    <3> QED
      BY <3>4
  <2> QED
    BY <2>6, <2>7
<1>4. \A i \in 0 .. Len(words) : i \in T
  <2> HIDE DEF T
  <2> QED
    BY <1>1, <1>2, <1>3, Along
<1> QED
  BY <1>4

(* Behind the end of the options all words are others. *)
AllBehind(st, words, k) ==
  \A d \in 0 .. Len(words) - k :
    /\ Len(st[k + d]) = Len(st[k]) + d
    /\ \A p \in 1 .. Len(st[k]) : st[k + d][p] = st[k][p]
    /\ \A p \in 1 .. d : st[k + d][Len(st[k]) + p] = words[k + p]

LEMMA KeptBehind ==
  ASSUME NEW S, NEW words \in Seq(S), NEW st, Kept(st, words), NEW k \in 0 .. Len(words),
         \A i \in k + 1 .. Len(words) : Roles(words)[i] = "other"
  PROVE  AllBehind(st, words, k)
<1> SUFFICES \A d \in 0 .. Len(words) - k :
               /\ st[k + d] \in Seq(S) /\ Len(st[k + d]) = Len(st[k]) + d
               /\ \A p \in 1 .. Len(st[k]) : st[k + d][p] = st[k][p]
               /\ \A p \in 1 .. d : st[k + d][Len(st[k]) + p] = words[k + p]
  BY DEF AllBehind
<1> DEFINE At(d) == /\ st[k + d] \in Seq(S) /\ Len(st[k + d]) = Len(st[k]) + d
                    /\ \A p \in 1 .. Len(st[k]) : st[k + d][p] = st[k][p]
                    /\ \A p \in 1 .. d : st[k + d][Len(st[k]) + p] = words[k + p]
           T == {d \in 0 .. Len(words) - k : At(d)}
<1>1. PICK n \in Nat : n = Len(words) - k /\ Len(words) \in Nat
  OBVIOUS
<1>2. PICK first, m : first = st[k] /\ m = Len(first)
  OBVIOUS
<1>3. first \in Seq(S) /\ m \in Nat
  <2>1. st[k] \in Seq(S)
    BY KeptWords
  <2> QED
    BY <1>2, <2>1
<1>4. 0 \in T
  <2>1. k + 0 = k /\ m + 0 = m
    BY <1>3
  <2>2. At(0)
    BY <1>2, <1>3, <2>1
  <2> HIDE DEF At
  <2> QED
    BY <1>1, <2>2
<1>5. ASSUME NEW d \in 1 .. n, d - 1 \in T PROVE d \in T
  <2>1. PICK e, i, old, now : e = d - 1 /\ i = k + d /\ old = st[k + (d - 1)] /\ now = st[k + d]
    OBVIOUS
  <2>2. /\ old \in Seq(S) /\ Len(old) = m + e
        /\ \A p \in 1 .. m : old[p] = first[p]
        /\ \A p \in 1 .. e : old[m + p] = words[k + p]
    BY <1>2, <1>5, <2>1
  <2>3. /\ e \in Nat /\ d = e + 1 /\ i \in k + 1 .. Len(words) /\ i \in 1 .. Len(words)
        /\ i - 1 = k + (d - 1)
    BY <1>1, <2>1
  <2>4. now = Append(old, words[i])
    <3>1. now = IF Roles(words)[i] = "other" THEN Append(st[i - 1], words[i]) ELSE st[i - 1]
      BY <2>1, <2>3 DEF Kept
    <3> QED
      BY <2>1, <2>3, <3>1
  <2>5. words[i] \in S
    BY <2>3
  <2>6. now \in Seq(S) /\ Len(now) = m + d /\ now[m + d] = words[i]
        /\ \A p \in 1 .. m + e : now[p] = old[p]
    BY <1>3, <2>2, <2>3, <2>4, <2>5
  <2>7. \A p \in 1 .. m : now[p] = first[p]
    BY <1>3, <2>2, <2>3, <2>6
  <2>8. ASSUME NEW p \in 1 .. d PROVE now[m + p] = words[k + p]
    <3>1. CASE p = d
      BY <2>1, <2>6, <3>1
    <3>2. CASE p # d
      <4>1. p \in 1 .. e /\ m + p \in 1 .. m + e
        BY <1>3, <2>3, <3>2
      <4> QED
        BY <2>2, <2>6, <4>1
    <3> QED
      BY <3>1, <3>2
  <2>9. At(d)
    BY <1>2, <2>1, <2>6, <2>7, <2>8
  <2> HIDE DEF At
  <2> QED
    BY <1>1, <2>9
<1>6. \A d \in 0 .. n : d \in T
  <2> HIDE DEF T
  <2> QED
    BY <1>1, <1>4, <1>5, Along
<1> QED
  BY <1>1, <1>6

-----------------------------------------------------------------------------
(* What the options are given                                               *)

LEMMA OptionOfOne ==
  ASSUME NEW word
  PROVE  OptionOf(word) = {} \/ \E o \in LongNames : OptionOf(word) = {o}
<1>1. IsFiniteSet(LongNames)
  <2>1. LongNames = {"help", "usage"} \cup {"version"} \cup {"width"} \cup {"height"}
                      \cup {"server"} \cup {"port"}
    BY DEF LongNames, Literals, Valued, Numeric
  <2>2. IsFiniteSet({"help"})
    BY FS_Singleton
  <2>3. IsFiniteSet({"help"} \cup {"usage"})
    BY <2>2, FS_AddElement
  <2>4. IsFiniteSet({"help"} \cup {"usage"} \cup {"version"})
    BY <2>3, FS_AddElement
  <2>5. IsFiniteSet({"help"} \cup {"usage"} \cup {"version"} \cup {"width"})
    BY <2>4, FS_AddElement
  <2>6. IsFiniteSet({"help"} \cup {"usage"} \cup {"version"} \cup {"width"} \cup {"height"})
    BY <2>5, FS_AddElement
  <2>7. IsFiniteSet({"help"} \cup {"usage"} \cup {"version"} \cup {"width"} \cup {"height"}
                      \cup {"server"})
    BY <2>6, FS_AddElement
  <2>8. IsFiniteSet({"help"} \cup {"usage"} \cup {"version"} \cup {"width"} \cup {"height"}
                      \cup {"server"} \cup {"port"})
    BY <2>7, FS_AddElement
  <2>9. LongNames = {"help"} \cup {"usage"} \cup {"version"} \cup {"width"} \cup {"height"}
                      \cup {"server"} \cup {"port"}
    BY <2>1
  <2> QED
    BY <2>8, <2>9
<1>2. ASSUME NEW typed \in DOMAIN Completions, Cardinality(Completions[typed]) = 1
      PROVE  \E o \in LongNames : Completions[typed] = {o}
  <2>1. Completions[typed] \in SUBSET LongNames
    BY CommandLineAssumption DEF CommandLineAssumption
  <2>2. IsFiniteSet(Completions[typed])
    BY <1>1, <2>1, FS_Subset
  <2>3. PICK o : Completions[typed] = {o}
    BY <1>2, <2>2, FS_Singleton
  <2>4. o \in LongNames
    BY <2>1, <2>3
  <2> QED
    BY <2>3, <2>4
<1>3. \A typed : LongOption(typed) = {} \/ \E o \in LongNames : LongOption(typed) = {o}
  BY <1>2 DEF LongOption
<1>4. \A letter \in DOMAIN LetterOf : LetterOf[letter] \in LongNames
  BY DEF LetterOf, LongNames, Valued, Numeric
<1> QED
  BY <1>3, <1>4 DEF OptionOf

(* The arguments once the options of a set have been met                    *)
Shaped(args) ==
  /\ args = [given |-> args.given, errors |-> args.errors]
  /\ args.given = [o \in LongNames \cup {"file"} |-> args.given[o]]

AsGiven(given, errors, words, S) ==
  /\ errors \in Nat
  /\ given["file"] = <<>>
  /\ \A o \in Literals :
       given[o] # <<>> <=> \E i \in S : OptionOf(words[i]) = {o} /\ words[i].attached = None
  /\ \A o \in LongNames : given[o] # <<>> => \E i \in S : OptionOf(words[i]) = {o}
  /\ errors = 0 =>
       \A i \in S : /\ ~Mistaken(words, i)
                    /\ \A o \in LongNames : OptionOf(words[i]) = {o} =>
                         /\ given[o] = <<ValueOf(words, i)>>
                         /\ \A j \in S : OptionOf(words[j]) = {o} => j = i
  /\ errors > 0 =>
       \/ \E i \in S : Mistaken(words, i)
       \/ \E o \in LongNames : \E i, j \in S :
            i # j /\ OptionOf(words[i]) = {o} /\ OptionOf(words[j]) = {o}

ArgsAre(args, words, S) == Shaped(args) /\ AsGiven(args.given, args.errors, words, S)

LEMMA ErrorRegistered ==
  ASSUME NEW args, Shaped(args), args.errors \in Nat
  PROVE  /\ Shaped(RegisterError(args))
         /\ RegisterError(args).given = args.given
         /\ RegisterError(args).errors \in Nat /\ RegisterError(args).errors > 0
<1>1. PICK given, errors : given = args.given /\ errors = 1
  OBVIOUS
<1>2. args = [given |-> given, errors |-> args.errors]
  BY <1>1 DEF Shaped
<1>3. RegisterError(args) = [given |-> given, errors |-> errors]
  BY <1>1, <1>2 DEF RegisterError
<1>4. errors \in Nat /\ errors > 0
  BY <1>1
<1>5. given = [o \in LongNames \cup {"file"} |-> given[o]]
  BY <1>1 DEF Shaped
<1>6. PICK after : after = RegisterError(args)
  OBVIOUS
<1>7. after.given = given /\ after.errors = errors
  BY <1>3, <1>6
<1>8. after = [given |-> after.given, errors |-> after.errors]
  BY <1>3, <1>6, <1>7
<1>9. Shaped(after)
  BY <1>5, <1>7, <1>8, Zenon DEF Shaped
<1> QED
  BY <1>1, <1>4, <1>6, <1>7, <1>9

(* It makes no difference when an error is registered.                      *)
LEMMA ErrorFirst ==
  ASSUME NEW args, Shaped(args), NEW o \in LongNames, NEW v, NEW early \in BOOLEAN,
         NEW bad \in BOOLEAN
  PROVE  LET first == IF early THEN RegisterError(args) ELSE args IN
         /\ RegisterError(first) = RegisterError(args)
         /\ (IF bad THEN RegisterError(Scan(first, o, v)) ELSE Scan(first, o, v))
              = IF early \/ bad THEN RegisterError(Scan(args, o, v)) ELSE Scan(args, o, v)
<1>1. PICK given, n : given = args.given /\ n = args.errors
  OBVIOUS
<1>2. args = [given |-> given, errors |-> n]
  BY <1>1 DEF Shaped
<1>3. PICK first : first = IF early THEN RegisterError(args) ELSE args
  OBVIOUS
<1>4. PICK m : first = [given |-> given, errors |-> m] /\ m = IF early THEN 1 ELSE n
  BY <1>2, <1>3 DEF RegisterError
<1>5. RegisterError(first) = RegisterError(args)
  BY <1>2, <1>4 DEF RegisterError
<1>6. CASE given[o] # <<>> \/ (o \in Numeric /\ ~(IsInt(v) /\ Fits(v)))
  <2>1. Scan(args, o, v) = RegisterError(args) /\ Scan(first, o, v) = RegisterError(first)
    <3>1. args.given = given /\ first.given = given
      BY <1>2, <1>4
    <3> QED
      BY <1>6, <3>1 DEF Scan
  <2>2. RegisterError(RegisterError(args)) = RegisterError(args)
    BY <1>2 DEF RegisterError
  <2> QED
    BY <1>3, <1>5, <2>1, <2>2
<1>7. CASE ~(given[o] # <<>> \/ (o \in Numeric /\ ~(IsInt(v) /\ Fits(v))))
  <2>1. PICK g : g = [given EXCEPT ![o] = <<v>>]
    OBVIOUS
  <2>2. /\ Scan(args, o, v) = [args EXCEPT !.given[o] = <<v>>]
        /\ Scan(first, o, v) = [first EXCEPT !.given[o] = <<v>>]
    <3>1. args.given = given /\ first.given = given
      BY <1>2, <1>4
    <3> QED
      BY <1>7, <3>1 DEF Scan
  <2>3. /\ Scan(args, o, v) = [given |-> g, errors |-> n]
        /\ Scan(first, o, v) = [given |-> g, errors |-> m]
    BY <1>2, <1>4, <2>1, <2>2
  <2>4. /\ RegisterError(Scan(args, o, v)) = [given |-> g, errors |-> 1]
        /\ RegisterError(Scan(first, o, v)) = [given |-> g, errors |-> 1]
    BY <2>3 DEF RegisterError
  <2> QED
    BY <1>3, <1>4, <1>5, <2>3, <2>4
<1> QED
  BY <1>6, <1>7

LEMMA ArgsRefused ==
  ASSUME NEW args, NEW words, NEW S, ArgsAre(args, words, S), NEW k, k \notin S,
         Mistaken(words, k),
         \A o \in Literals : OptionOf(words[k]) = {o} => words[k].attached # None
  PROVE  ArgsAre(RegisterError(args), words, S \cup {k})
<1>1. PICK given, errors : given = args.given /\ errors = RegisterError(args).errors
  OBVIOUS
<1>2. AsGiven(given, args.errors, words, S)
  BY <1>1 DEF ArgsAre
<1>3. /\ Shaped(RegisterError(args)) /\ RegisterError(args).given = given
      /\ errors \in Nat /\ errors > 0
  BY <1>1, <1>2, ErrorRegistered DEF ArgsAre, AsGiven
<1>4. /\ given["file"] = <<>>
      /\ \A o \in Literals :
           given[o] # <<>> <=> \E i \in S : OptionOf(words[i]) = {o} /\ words[i].attached = None
      /\ \A o \in LongNames : given[o] # <<>> => \E i \in S : OptionOf(words[i]) = {o}
  BY <1>2 DEF AsGiven
<1>5. \A o \in LongNames : given[o] # <<>> => \E i \in S \cup {k} : OptionOf(words[i]) = {o}
  BY <1>4
<1>6. \A o \in Literals :
        given[o] # <<>>
          <=> \E i \in S \cup {k} : OptionOf(words[i]) = {o} /\ words[i].attached = None
  BY <1>4
<1>7. \E i \in S \cup {k} : Mistaken(words, i)
  OBVIOUS
<1>8. errors # 0
  BY <1>3
<1>9. AsGiven(given, errors, words, S \cup {k})
  BY <1>3, <1>4, <1>5, <1>6, <1>7, <1>8, Zenon DEF AsGiven
<1> QED
  BY <1>1, <1>3, <1>9 DEF ArgsAre

(* An option that gets its value, and may yet be found in error             *)
LEMMA ArgsTaken ==
  ASSUME NEW args, NEW words, NEW S, ArgsAre(args, words, S), NEW k, k \notin S,
         NEW o \in LongNames, OptionOf(words[k]) = {o},
         o \in Literals => words[k].attached = None,
         NEW bad \in BOOLEAN,
         Mistaken(words, k)
           <=> \/ bad
               \/ o \in Numeric /\ ~(IsInt(ValueOf(words, k)) /\ Fits(ValueOf(words, k)))
  PROVE  LET scanned == Scan(args, o, ValueOf(words, k))
         IN ArgsAre(IF bad THEN RegisterError(scanned) ELSE scanned, words, S \cup {k})
<1>1. PICK v, scanned, given, n : /\ v = ValueOf(words, k) /\ scanned = Scan(args, o, v)
                                  /\ given = args.given /\ n = args.errors
  OBVIOUS
<1>2. Shaped(args) /\ AsGiven(given, n, words, S)
  BY <1>1 DEF ArgsAre
<1>3. n \in Nat /\ given["file"] = <<>>
      /\ given = [p \in LongNames \cup {"file"} |-> given[p]]
  BY <1>1, <1>2 DEF AsGiven, Shaped
<1>4. \A p \in Literals :
        given[p] # <<>> <=> \E i \in S : OptionOf(words[i]) = {p} /\ words[i].attached = None
  BY <1>2 DEF AsGiven
<1>5. \A p \in LongNames : given[p] # <<>> => \E i \in S : OptionOf(words[i]) = {p}
  BY <1>2 DEF AsGiven
<1>6. n = 0 => \A i \in S :
        /\ ~Mistaken(words, i)
        /\ \A p \in LongNames : OptionOf(words[i]) = {p} =>
             /\ given[p] = <<ValueOf(words, i)>>
             /\ \A j \in S : OptionOf(words[j]) = {p} => j = i
  BY <1>2 DEF AsGiven
<1>7. n > 0 => \/ \E i \in S : Mistaken(words, i)
               \/ \E p \in LongNames : \E i, j \in S :
                    i # j /\ OptionOf(words[i]) = {p} /\ OptionOf(words[j]) = {p}
  BY <1>2 DEF AsGiven
<1> DEFINE Twice == \E p \in LongNames : \E i, j \in S \cup {k} :
                      i # j /\ OptionOf(words[i]) = {p} /\ OptionOf(words[j]) = {p}
           Astray == \E i \in S \cup {k} : Mistaken(words, i)
           refused == \/ given[o] # <<>>
                      \/ o \in Numeric /\ ~(IsInt(v) /\ Fits(v))
<1>8. given[o] # <<>> => Twice
  <2> SUFFICES ASSUME given[o] # <<>> PROVE Twice
    OBVIOUS
  <2>1. PICK i \in S : OptionOf(words[i]) = {o}
    BY <1>5
  <2>2. i # k /\ i \in S \cup {k} /\ k \in S \cup {k}
    OBVIOUS
  <2> QED
    BY <2>1, <2>2
<1>9. n > 0 => Astray \/ Twice
  BY <1>7
(* With an error, whichever it is *)
<1>10. ASSUME NEW e \in Nat, e > 0, Astray \/ Twice, NEW g,
              g["file"] = <<>>, \A p \in LongNames : p # o => g[p] = given[p],
              o \in Literals => g[o] # <<>>
       PROVE  AsGiven(g, e, words, S \cup {k})
  <2>1. \A p \in LongNames : g[p] # <<>> => \E i \in S \cup {k} : OptionOf(words[i]) = {p}
    BY <1>5, <1>10
  <2>2. ASSUME NEW p \in Literals
        PROVE  g[p] # <<>>
                 <=> \E i \in S \cup {k} : OptionOf(words[i]) = {p} /\ words[i].attached = None
    <3>1. CASE p = o
      <4>1. OptionOf(words[k]) = {p} /\ words[k].attached = None /\ g[p] # <<>>
        BY <1>10, <3>1
      <4> QED
        BY <4>1
    <3>2. CASE p # o
      <4>1. g[p] = given[p] /\ OptionOf(words[k]) # {p}
        BY <1>10, <3>2 DEF LongNames
      <4> QED
        BY <1>4, <4>1
    <3> QED
      BY <3>1, <3>2
  <2>3. e # 0
    BY <1>10
  <2> QED
    BY <1>10, <2>1, <2>2, <2>3, Zenon DEF AsGiven
<1>11. RegisterError(args).given = given /\ Shaped(RegisterError(args))
       /\ RegisterError(args).errors \in Nat /\ RegisterError(args).errors > 0
  BY <1>1, <1>2, <1>3, ErrorRegistered
<1>12. CASE refused
  <2>1. scanned = RegisterError(args)
    BY <1>1, <1>12 DEF Scan
  <2>2. Astray \/ Twice
    <3>1. CASE given[o] # <<>>
      BY <1>8, <3>1
    <3>2. CASE o \in Numeric /\ ~(IsInt(v) /\ Fits(v))
      <4>1. Mistaken(words, k)
        BY <1>1, <3>2
      <4> QED
        BY <4>1
    <3> QED
      BY <1>12, <3>1, <3>2
  <2>3. o \in Literals => given[o] # <<>>
    BY <1>12 DEF Literals, Numeric
  <2> HIDE DEF Astray, Twice
  <2>4. \A e \in Nat : e > 0 => AsGiven(given, e, words, S \cup {k})
    BY <1>3, <1>10, <2>2, <2>3
  <2>5. ArgsAre(scanned, words, S \cup {k})
    BY <1>11, <2>1, <2>4 DEF ArgsAre
  <2>6. /\ Shaped(RegisterError(scanned)) /\ RegisterError(scanned).given = given
        /\ RegisterError(scanned).errors \in Nat /\ RegisterError(scanned).errors > 0
    BY <1>11, <2>1, ErrorRegistered
  <2>7. ArgsAre(RegisterError(scanned), words, S \cup {k})
    BY <2>4, <2>6 DEF ArgsAre
  <2> QED
    BY <1>1, <2>5, <2>7
<1>13. CASE ~refused
  <2>1. PICK g : g = [given EXCEPT ![o] = <<v>>]
    OBVIOUS
  <2>2. scanned = [args EXCEPT !.given[o] = <<v>>]
    BY <1>1, <1>13 DEF Scan
  <2>3. args = [given |-> given, errors |-> n]
    BY <1>1, <1>2 DEF Shaped
  <2>4. scanned = [given |-> g, errors |-> n]
    BY <2>1, <2>2, <2>3
  <2>5. scanned.given = g /\ scanned.errors = n
    BY <2>4
  <2>6. PICK names : names = LongNames \cup {"file"}
    OBVIOUS
  <2>7. "file" \in names /\ o \in names /\ o # "file" /\ LongNames \subseteq names
    BY <2>6 DEF LongNames, Literals, Valued, Numeric
  <2>8. given = [p \in names |-> given[p]]
    BY <1>3, <2>6
  <2>9. /\ g = [p \in names |-> g[p]] /\ g["file"] = <<>> /\ g[o] = <<v>>
        /\ \A p \in LongNames : p # o => g[p] = given[p]
    BY <1>3, <2>1, <2>7, <2>8
  <2>10. Shaped(scanned)
    BY <2>4, <2>5, <2>6, <2>9, Zenon DEF Shaped
  <2>11. g[o] # <<>>
    BY <2>9
  <2>12. CASE bad
    <3>1. Astray
      <4>1. Mistaken(words, k)
        BY <2>12
      <4> QED
        BY <4>1
    <3> HIDE DEF Astray, Twice
    <3>2. \A e \in Nat : e > 0 => AsGiven(g, e, words, S \cup {k})
      BY <1>10, <2>9, <2>11, <3>1
    <3>3. /\ Shaped(RegisterError(scanned)) /\ RegisterError(scanned).given = g
          /\ RegisterError(scanned).errors \in Nat /\ RegisterError(scanned).errors > 0
      BY <1>3, <2>5, <2>10, ErrorRegistered
    <3>4. ArgsAre(RegisterError(scanned), words, S \cup {k})
      BY <3>2, <3>3 DEF ArgsAre
    <3> QED
      BY <1>1, <2>12, <3>4
  <2>13. CASE ~bad /\ n > 0
    <3> HIDE DEF Astray, Twice
    <3>1. AsGiven(g, n, words, S \cup {k})
      BY <1>3, <1>9, <1>10, <2>9, <2>11, <2>13
    <3>2. ArgsAre(scanned, words, S \cup {k})
      BY <2>5, <2>10, <3>1 DEF ArgsAre
    <3> QED
      BY <1>1, <2>13, <3>2
  <2>14. CASE ~bad /\ n = 0
    <3>1. ~Mistaken(words, k)
      BY <1>1, <1>13, <2>14
    <3>2. given[o] = <<>>
      BY <1>13
    <3>3. \A i \in S : OptionOf(words[i]) # {o}
      BY <1>6, <2>14, <3>2
    <3>4. \A p \in LongNames : g[p] # <<>> => \E i \in S \cup {k} : OptionOf(words[i]) = {p}
      BY <1>5, <2>9
    <3>5. ASSUME NEW p \in Literals
          PROVE  g[p] # <<>>
                   <=> \E i \in S \cup {k} : OptionOf(words[i]) = {p} /\ words[i].attached = None
      <4>1. CASE p = o
        <5>1. OptionOf(words[k]) = {p} /\ words[k].attached = None /\ g[p] # <<>>
          BY <2>11, <4>1
        <5> QED
          BY <5>1
      <4>2. CASE p # o
        <5>1. g[p] = given[p] /\ OptionOf(words[k]) # {p}
          BY <2>9, <4>2 DEF LongNames
        <5> QED
          BY <1>4, <5>1
      <4> QED
        BY <4>1, <4>2
    <3>6. ASSUME NEW i \in S \cup {k}
          PROVE  /\ ~Mistaken(words, i)
                 /\ \A p \in LongNames : OptionOf(words[i]) = {p} =>
                      /\ g[p] = <<ValueOf(words, i)>>
                      /\ \A j \in S \cup {k} : OptionOf(words[j]) = {p} => j = i
      <4>1. CASE i = k
        <5>1. \A p : OptionOf(words[i]) = {p} => p = o
          BY <4>1
        <5> QED
          BY <1>1, <2>9, <3>1, <3>3, <4>1, <5>1
      <4>2. CASE i # k
        <5>1. i \in S
          BY <4>2
        <5>2. ~Mistaken(words, i)
          BY <1>6, <2>14, <5>1
        <5>3. ASSUME NEW p \in LongNames, OptionOf(words[i]) = {p}
              PROVE  /\ g[p] = <<ValueOf(words, i)>>
                     /\ \A j \in S \cup {k} : OptionOf(words[j]) = {p} => j = i
          <6>1. p # o
            BY <3>3, <5>1, <5>3
          <6>2. OptionOf(words[k]) # {p}
            BY <6>1
          <6>3. given[p] = <<ValueOf(words, i)>> /\ \A j \in S : OptionOf(words[j]) = {p} => j = i
            BY <1>6, <2>14, <5>1, <5>3
          <6> QED
            BY <2>9, <6>1, <6>2, <6>3
        <5> QED
          BY <5>2, <5>3
      <4> QED
        BY <4>1, <4>2
    <3>7. ~(n > 0)
      BY <2>14
    <3>8. AsGiven(g, n, words, S \cup {k})
      BY <1>3, <2>9, <3>4, <3>5, <3>6, <3>7, Zenon DEF AsGiven
    <3>9. ArgsAre(scanned, words, S \cup {k})
      BY <2>5, <2>10, <3>8 DEF ArgsAre
    <3> QED
      BY <1>1, <2>14, <3>9
  <2> QED
    BY <1>3, <2>12, <2>13, <2>14
<1> QED
  BY <1>12, <1>13

-----------------------------------------------------------------------------
(* getopt_internal(): what its words are taken for is their role            *)

(* The options have not ended before word k, and the word is nobody's value  *)
Upto(words, k) ==
  /\ \A j \in 1 .. k - 1 : ~EndsAll(Roles(words), words, j)
  /\ k > 1 /\ k <= Len(words) => ~(Roles(words)[k - 1] = "option" /\ WantsNext(words[k - 1]))

LEMMA RoleUpto ==
  ASSUME NEW S, NEW words \in Seq(S), NEW k \in 1 .. Len(words), Upto(words, k)
  PROVE  Roles(words)[k] = IF IsOption(words[k]) THEN "option" ELSE "other"
<1>1. Roles(words)[k] = RoleOf(Roles(words), words, k)
  BY RolesAre
<1>2. ~(\E j \in 1 .. k - 1 : EndsAll(Roles(words), words, j))
  BY DEF Upto
<1>3. ~(k > 1 /\ Roles(words)[k - 1] = "option" /\ WantsNext(words[k - 1]))
  BY DEF Upto
<1> QED
  BY <1>1, <1>2, <1>3 DEF RoleOf

LEMMA UptoNext ==
  ASSUME NEW S, NEW words \in Seq(S), NEW k \in 1 .. Len(words), Upto(words, k),
         ~EndsAll(Roles(words), words, k),
         Roles(words)[k] = "option" /\ k < Len(words) => ~WantsNext(words[k])
  PROVE  Upto(words, k + 1)
<1>1. k \in Nat /\ Len(words) \in Nat /\ (k + 1) - 1 = k
  OBVIOUS
<1>2. ASSUME NEW j \in 1 .. (k + 1) - 1
      PROVE  ~EndsAll(Roles(words), words, j)
  <2>1. CASE j = k
    BY <2>1
  <2>2. CASE j # k
    <3>1. j \in 1 .. k - 1
      BY <1>1, <2>2
    <3> QED
      BY <3>1 DEF Upto
  <2> QED
    BY <2>1, <2>2
<1>3. ASSUME k + 1 <= Len(words)
      PROVE  ~(Roles(words)[(k + 1) - 1] = "option" /\ WantsNext(words[(k + 1) - 1]))
  <2>1. k < Len(words)
    BY <1>1, <1>3
  <2> QED
    BY <1>1, <2>1
<1> QED
  BY <1>2, <1>3 DEF Upto

LEMMA UptoValue ==
  ASSUME NEW S, NEW words \in Seq(S), NEW k \in 1 .. Len(words), Upto(words, k), k < Len(words),
         Roles(words)[k] = "option", words[k].kind # "end", WantsNext(words[k])
  PROVE  Roles(words)[k + 1] = "value" /\ Upto(words, k + 2)
<1>1. k \in Nat /\ Len(words) \in Nat /\ (k + 1) - 1 = k /\ k + 1 \in 1 .. Len(words)
  OBVIOUS
<1>2. ASSUME NEW j \in 1 .. k
      PROVE  ~EndsAll(Roles(words), words, j)
  <2>1. CASE j = k
    BY <2>1 DEF EndsAll
  <2>2. CASE j # k
    <3>1. j \in 1 .. k - 1
      BY <1>1, <2>2
    <3> QED
      BY <3>1 DEF Upto
  <2> QED
    BY <2>1, <2>2
<1>3. PICK i : i = k + 1
  OBVIOUS
<1>4. i \in 1 .. Len(words) /\ i - 1 = k /\ i > 1
  BY <1>1, <1>3
<1>5. Roles(words)[i] = RoleOf(Roles(words), words, i)
  BY <1>4, RolesAre
<1>6. Roles(words)[i] = "value"
  BY <1>2, <1>4, <1>5 DEF RoleOf
<1>7. ASSUME NEW j \in 1 .. (k + 2) - 1
      PROVE  ~EndsAll(Roles(words), words, j)
  <2>1. CASE j = i
    BY <1>6, <2>1 DEF EndsAll
  <2>2. CASE j # i
    <3>1. j \in 1 .. k
      BY <1>1, <1>3, <2>2
    <3> QED
      BY <1>2, <3>1
  <2> QED
    BY <2>1, <2>2
<1>8. ~(Roles(words)[(k + 2) - 1] = "option" /\ WantsNext(words[(k + 2) - 1]))
  <2>1. (k + 2) - 1 = i
    BY <1>1, <1>3
  <2> QED
    BY <1>6, <2>1
<1> QED
  BY <1>3, <1>6, <1>7, <1>8 DEF Upto

LEMMA BehindEnd ==
  ASSUME NEW S, NEW words \in Seq(S), NEW k \in 1 .. Len(words),
         EndsAll(Roles(words), words, k)
  PROVE  \A i \in k + 1 .. Len(words) : Roles(words)[i] = "other"
<1> TAKE i \in k + 1 .. Len(words)
<1>1. i \in 1 .. Len(words) /\ k \in 1 .. i - 1
  OBVIOUS
<1>2. Roles(words)[i] = RoleOf(Roles(words), words, i)
  BY <1>1, RolesAre
<1> QED
  BY <1>1, <1>2 DEF RoleOf

(* The words o that were skipped before word k, as nonopt_start and         *)
(* nonopt_end have them                                                     *)
Skipped(ws, k, start, end, o) ==
  /\ start \in Nat /\ end \in Nat
  /\ start = 0 => Len(o) = 0 /\ end = 0
  /\ start # 0 => /\ Len(o) > 0
                  /\ \A p \in 1 .. Len(o) : ws[start + p - 1] = o[p]
                  /\ end = 0 => start + Len(o) = k
                  /\ end # 0 => end = start + Len(o) /\ end < k

(* They stand right before word k. *)
Before(ws, k, o) == \A p \in 1 .. Len(o) : ws[k - Len(o) + p - 1] = o[p]

Gathered(ws, k, start, end) == IF end = 0 THEN ws ELSE PermuteArgs(start, end, k, ws)

Brought(S, ws, k, start, end, o) ==
  /\ Gathered(ws, k, start, end) \in Seq(S)
  /\ Len(Gathered(ws, k, start, end)) = Len(ws)
  /\ Before(Gathered(ws, k, start, end), k, o)
  /\ \A i \in k .. Len(ws) : Gathered(ws, k, start, end)[i] = ws[i]
  /\ k - Len(o) \in 1 .. k
  /\ start # 0 /\ end = 0 => start = k - Len(o)
  /\ end # 0 => k - (end - start) = k - Len(o)
  /\ start = 0 => Len(o) = 0

LEMMA GatheredBefore ==
  ASSUME NEW S, NEW ws \in Seq(S), NEW k \in 1 .. Len(ws) + 1, NEW start, NEW end, NEW o \in Seq(S),
         Skipped(ws, k, start, end, o)
  PROVE  Brought(S, ws, k, start, end, o)
<1> SUFFICES /\ Gathered(ws, k, start, end) \in Seq(S)
             /\ Len(Gathered(ws, k, start, end)) = Len(ws)
             /\ Before(Gathered(ws, k, start, end), k, o)
             /\ \A i \in k .. Len(ws) : Gathered(ws, k, start, end)[i] = ws[i]
             /\ k - Len(o) \in 1 .. k
             /\ start # 0 /\ end = 0 => start = k - Len(o)
             /\ end # 0 => k - (end - start) = k - Len(o)
             /\ start = 0 => Len(o) = 0
  BY DEF Brought
<1>1. PICK m, n : m = Len(o) /\ n = Len(ws)
  OBVIOUS
<1>2. m \in Nat /\ n \in Nat /\ k \in Nat /\ start \in Nat /\ end \in Nat
  BY <1>1 DEF Skipped
<1>3. k - Len(o) \in 1 .. k
  BY <1>1, <1>2 DEF Skipped
<1>4. /\ start # 0 /\ end = 0 => start = k - Len(o)
      /\ end # 0 => k - (end - start) = k - Len(o)
      /\ start = 0 => Len(o) = 0
  BY <1>1, <1>2 DEF Skipped
<1>5. CASE end = 0
  <2>1. Before(ws, k, o)
    <3>1. CASE start = 0
      BY <1>4, <3>1 DEF Before
    <3>2. CASE start # 0
      <4>1. start = k - Len(o) /\ \A p \in 1 .. Len(o) : ws[start + p - 1] = o[p]
        BY <1>4, <1>5, <3>2 DEF Skipped
      <4> QED
        BY <4>1 DEF Before
    <3> QED
      BY <3>1, <3>2
  <2> QED
    BY <1>3, <1>4, <1>5, <2>1 DEF Gathered
<1>6. CASE end # 0
  <2>1. start # 0 /\ m > 0 /\ end = start + m /\ end < k
        /\ \A p \in 1 .. m : ws[start + p - 1] = o[p]
    BY <1>1, <1>6 DEF Skipped
  <2>2. PICK after : after = PermuteArgs(start, end, k, ws)
    OBVIOUS
  <2>3. 1 <= start /\ start < end /\ end < k /\ k <= Len(ws) + 1
    BY <1>1, <1>2, <2>1
  <2>4. /\ after \in Seq(S) /\ Len(after) = Len(ws)
        /\ \A q \in start .. end - 1 : after[q + (k - end)] = ws[q]
        /\ \A q \in 1 .. Len(ws) : q \notin start .. k - 1 => after[q] = ws[q]
    <3>1. start \in Nat /\ end \in Nat /\ k \in Nat
      BY <1>2
    <3>2. BlocksExchanged(S, ws, PermuteArgs(start, end, k, ws), start, end, k)
      BY <2>3, <3>1, PermuteArgsExchanges
    <3> QED
      BY <2>2, <3>2 DEF BlocksExchanged
  <2>5. ASSUME NEW p \in 1 .. m PROVE after[k - m + p - 1] = o[p]
    <3>1. PICK q : q = start + p - 1
      OBVIOUS
    <3>2. q \in start .. end - 1 /\ q + (k - end) = k - m + p - 1
      BY <1>2, <2>1, <3>1
    <3>3. after[q + (k - end)] = ws[q]
      BY <2>4, <3>2
    <3> QED
      BY <2>1, <3>1, <3>2, <3>3
  <2>6. \A i \in k .. Len(ws) : after[i] = ws[i]
    BY <1>2, <2>3, <2>4
  <2> QED
    BY <1>1, <1>3, <1>4, <1>6, <2>2, <2>4, <2>5, <2>6 DEF Gathered, Before
<1> QED
  BY <1>5, <1>6

(* The parser's state by its parts *)
State(ws, k, start, end, done, args) ==
  [words |-> ws, optind |-> k, start |-> start, end |-> end, done |-> done, args |-> args]

PermutedIs(ws, k, start, end, done, args) ==
  Permuted(State(ws, k, start, end, done, args)) =
    State(Gathered(ws, k, start, end), IF end = 0 THEN k ELSE k - (end - start),
          IF end = 0 THEN start ELSE 0, 0, done, args)

SkipIs(ws, k, start, end, done, args) ==
  Skip(State(ws, k, start, end, done, args)) =
    State(Gathered(ws, k, start, end), k + 1,
          IF start = 0 THEN k ELSE IF end = 0 THEN start ELSE k - (end - start),
          0, done, args)

FoundIs(ws, k, start, end, done, args) ==
  Found(State(ws, k, start, end, done, args)) =
    State(ws, k, start, IF start # 0 /\ end = 0 THEN k ELSE end, done, args)

LEMMA StepsOfState ==
  ASSUME NEW ws, NEW k, NEW start, NEW end, NEW done, NEW args
  PROVE  LET st == State(ws, k, start, end, done, args) IN
         /\ PermutedIs(ws, k, start, end, done, args)
         /\ SkipIs(ws, k, start, end, done, args)
         /\ FoundIs(ws, k, start, end, done, args)
         /\ Failed(st) = State(ws, k + 1, start, end, done, RegisterError(args))
         /\ \A option, value, used : Got(st, option, value, used) =
              State(ws, k + used, start, end, done, Scan(args, option, value))
<1> DEFINE st == State(ws, k, start, end, done, args)
<1>1. /\ st.words = ws /\ st.optind = k /\ st.start = start /\ st.end = end
      /\ st.done = done /\ st.args = args
  BY DEF State
<1>2. PICK all : all = Gathered(ws, k, start, end)
  OBVIOUS
<1>3. Permuted(st) = State(all, IF end = 0 THEN k ELSE k - (end - start),
                           IF end = 0 THEN start ELSE 0, 0, done, args)
  <2>1. CASE end = 0
    BY <1>1, <1>2, <2>1 DEF Permuted, State, Gathered
  <2>2. CASE end # 0
    <3>1. all = PermuteArgs(start, end, k, ws)
      BY <1>2, <2>2 DEF Gathered
    <3> QED
      BY <1>1, <2>2, <3>1 DEF Permuted, State
  <2> QED
    BY <2>1, <2>2
<1>4. Skip(st) = State(all, k + 1,
                       IF start = 0 THEN k ELSE IF end = 0 THEN start ELSE k - (end - start),
                       0, done, args)
  <2>1. PICK p : p = Permuted(st)
    OBVIOUS
  <2>2. p = [words |-> all, optind |-> IF end = 0 THEN k ELSE k - (end - start),
             start |-> IF end = 0 THEN start ELSE 0, end |-> 0, done |-> done, args |-> args]
    BY <1>3, <2>1 DEF State
  <2>3. Skip(st) = [p EXCEPT !.start = IF start = 0 THEN k ELSE IF end = 0 THEN start ELSE p.optind,
                             !.optind = k + 1]
    BY <1>1, <2>1 DEF Skip
  <2> QED
    BY <2>2, <2>3 DEF State
<1>5. Found(st) = State(ws, k, start, IF start # 0 /\ end = 0 THEN k ELSE end, done, args)
  BY DEF Found, State
<1>6. Failed(st) = State(ws, k + 1, start, end, done, RegisterError(args))
  <2>1. PICK after : after = RegisterError(args)
    OBVIOUS
  <2>2. Failed(st) = [st EXCEPT !.optind = k + 1, !.args = after]
    <3> HIDE DEF st
    <3> QED
      BY <1>1, <2>1 DEF Failed
  <2> QED
    BY <2>1, <2>2 DEF State
<1>7. ASSUME NEW option, NEW value, NEW used
      PROVE  Got(st, option, value, used) =
               State(ws, k + used, start, end, done, Scan(args, option, value))
  <2>1. PICK after : after = Scan(args, option, value)
    OBVIOUS
  <2>2. Got(st, option, value, used) = [st EXCEPT !.optind = k + used, !.args = after]
    <3> HIDE DEF st
    <3> QED
      BY <1>1, <2>1 DEF Got
  <2> QED
    BY <2>1, <2>2 DEF State
<1>8. PermutedIs(ws, k, start, end, done, args)
  BY <1>2, <1>3 DEF PermutedIs
<1>9. SkipIs(ws, k, start, end, done, args)
  BY <1>2, <1>4 DEF SkipIs
<1>10. FoundIs(ws, k, start, end, done, args)
  BY <1>5 DEF FoundIs
<1> QED
  BY <1>6, <1>7, <1>8, <1>9, <1>10

LEMMA UnknownOfState ==
  ASSUME NEW ws, NEW k, NEW start, NEW end, NEW done, NEW args, NEW word
  PROVE  TakeUnknown(State(ws, k, start, end, done, args), word) =
           State(ws, k, start, end, done, IF HasUnknown(word) THEN RegisterError(args) ELSE args)
<1>1. PICK st, after : st = State(ws, k, start, end, done, args) /\ after = RegisterError(args)
  OBVIOUS
<1>2. CASE HasUnknown(word)
  <2>1. st.args = args
    BY <1>1 DEF State
  <2>2. TakeUnknown(st, word) = [st EXCEPT !.args = after]
    BY <1>1, <1>2, <2>1 DEF TakeUnknown
  <2> QED
    BY <1>1, <1>2, <2>2 DEF State
<1>3. CASE ~HasUnknown(word)
  BY <1>1, <1>3 DEF TakeUnknown
<1> QED
  BY <1>2, <1>3

LEMMA StopOfState ==
  ASSUME NEW ws, NEW k, NEW start, NEW end, NEW done, NEW args
  PROVE  Stop(State(ws, k, start, end, done, args)) = State(ws, k, start, end, TRUE, args)
<1>1. PICK st : st = State(ws, k, start, end, done, args)
  OBVIOUS
<1>2. Stop(st) = [st EXCEPT !.done = TRUE]
  BY DEF Stop
<1> QED
  BY <1>1, <1>2 DEF State

LEMMA MistakenIs ==
  ASSUME NEW words, NEW k, NEW o \in LongNames, OptionOf(words[k]) = {o}
  PROVE  /\ o \in Literals =>
              /\ ~WantsNext(words[k]) /\ o \notin Numeric
              /\ Mistaken(words, k) <=> HasUnknown(words[k]) \/ words[k].attached # None
         /\ o \in Valued =>
              /\ o \notin Literals
              /\ WantsNext(words[k]) <=> words[k].attached = None
              /\ HasValue(words, k) <=> (WantsNext(words[k]) => k < Len(words))
              /\ ~HasValue(words, k) => Mistaken(words, k)
              /\ HasValue(words, k) =>
                   (Mistaken(words, k)
                      <=> \/ HasUnknown(words[k])
                          \/ words[k].kind = "long" /\ ValueOf(words, k) = Text("")
                          \/ /\ o \in Numeric
                             /\ ~(IsInt(ValueOf(words, k)) /\ Fits(ValueOf(words, k))))
         /\ o \in Literals \/ o \in Valued
<1>1. o \in Literals \/ o \in Valued
  BY DEF LongNames
<1>2. o \in Literals => o \notin Valued /\ o \notin Numeric
  BY DEF Literals, Valued, Numeric
<1>3. /\ {o} \subseteq Literals <=> o \in Literals
      /\ {o} \subseteq Valued <=> o \in Valued
      /\ {o} \subseteq Numeric <=> o \in Numeric
      /\ {o} \cap Valued # {} <=> o \in Valued
      /\ {o} # {}
  OBVIOUS
<1>4. WantsNext(words[k]) <=> o \in Valued /\ words[k].attached = None
  BY <1>3 DEF WantsNext
<1>5. HasValue(words, k) <=> o \in Valued /\ (WantsNext(words[k]) => k < Len(words))
  BY <1>3 DEF HasValue
<1>6. Mistaken(words, k) <=>
        \/ HasUnknown(words[k])
        \/ o \in Literals /\ words[k].attached # None
        \/ o \in Valued /\ ~HasValue(words, k)
        \/ HasValue(words, k) /\ words[k].kind = "long" /\ ValueOf(words, k) = Text("")
        \/ /\ HasValue(words, k) /\ o \in Numeric
           /\ ~(IsInt(ValueOf(words, k)) /\ Fits(ValueOf(words, k)))
  BY <1>3 DEF Mistaken
<1> QED
  BY <1>1, <1>2, <1>4, <1>5, <1>6

TakesValue(words, ws, k, start, end, done, args, o) ==
  TakeValue(State(ws, k, start, end, done, args), o, words[k].attached) =
    IF HasValue(words, k)
    THEN State(ws, IF WantsNext(words[k]) THEN k + 2 ELSE k + 1, start, end, done,
               Scan(args, o, ValueOf(words, k)))
    ELSE State(ws, k + 1, start, end, done, RegisterError(args))

LEMMA ValueTaken ==
  ASSUME NEW words, NEW ws, NEW k \in Nat, NEW start, NEW end, NEW done, NEW args,
         Len(words) \in Nat, k <= Len(words), Len(ws) = Len(words),
         k < Len(words) => ws[k + 1] = words[k + 1],
         NEW o \in Valued, OptionOf(words[k]) = {o}
  PROVE  TakesValue(words, ws, k, start, end, done, args, o)
<1>1. PICK st, word : st = State(ws, k, start, end, done, args) /\ word = words[k]
  OBVIOUS
<1>2. st.words = ws /\ st.optind = k
  BY <1>1 DEF State
<1>3. /\ Failed(st) = State(ws, k + 1, start, end, done, RegisterError(args))
      /\ \A option, value, used : Got(st, option, value, used) =
           State(ws, k + used, start, end, done, Scan(args, option, value))
  BY <1>1, StepsOfState
<1>4. /\ WantsNext(words[k]) <=> word.attached = None
      /\ HasValue(words, k) <=> (WantsNext(words[k]) => k < Len(words))
  BY <1>1, MistakenIs DEF LongNames
<1> SUFFICES TakeValue(st, o, word.attached) =
               IF HasValue(words, k)
               THEN State(ws, IF WantsNext(word) THEN k + 2 ELSE k + 1, start, end, done,
                          Scan(args, o, ValueOf(words, k)))
               ELSE State(ws, k + 1, start, end, done, RegisterError(args))
  BY <1>1 DEF TakesValue
<1>5. CASE word.attached # None
  <2>1. TakeValue(st, o, word.attached) = Got(st, o, word.attached, 1)
    BY <1>5 DEF TakeValue
  <2>2. ValueOf(words, k) = word.attached
    BY <1>1, <1>4, <1>5 DEF ValueOf
  <2> QED
    BY <1>1, <1>3, <1>4, <1>5, <2>1, <2>2
<1>6. CASE word.attached = None /\ k = Len(words)
  <2>1. TakeValue(st, o, word.attached) = Failed(st)
    BY <1>2, <1>6 DEF TakeValue
  <2> QED
    BY <1>1, <1>3, <1>4, <1>6, <2>1
<1>7. CASE word.attached = None /\ k < Len(words)
  <2>1. TakeValue(st, o, word.attached) = Got(st, o, ws[k + 1], 2)
    BY <1>2, <1>7 DEF TakeValue
  <2>2. ValueOf(words, k) = ws[k + 1]
    BY <1>1, <1>4, <1>7 DEF ValueOf
  <2> QED
    BY <1>1, <1>3, <1>4, <1>7, <2>1, <2>2
<1> QED
  BY <1>5, <1>6, <1>7

Take(st, word) == IF word.kind = "long" THEN TakeLong(st, word) ELSE TakeShort(st, word)

TakesOption(words, ws, k, start, end, done, args, T) ==
  \E after :
    /\ ArgsAre(after, words, T \cup {k})
    /\ Take(TakeUnknown(State(ws, k, start, end, done, args), words[k]), words[k]) =
         State(ws, IF WantsNext(words[k]) /\ k < Len(words) THEN k + 2 ELSE k + 1,
               start, end, done, after)

LEMMA OptionTaken ==
  ASSUME NEW words, NEW ws, NEW k \in Nat, NEW start, NEW end, NEW done, NEW args,
         Len(words) \in Nat, k <= Len(words), Len(ws) = Len(words),
         k < Len(words) => ws[k + 1] = words[k + 1],
         NEW T, k \notin T, ArgsAre(args, words, T)
  PROVE  TakesOption(words, ws, k, start, end, done, args, T)
<1>1. PICK word, early, first, st :
        /\ word = words[k] /\ early = HasUnknown(word)
        /\ first = (IF early THEN RegisterError(args) ELSE args)
        /\ st = State(ws, k, start, end, done, first)
  OBVIOUS
<1>0. early \in BOOLEAN
  <2>1. HasUnknown(word) \in BOOLEAN
    BY DEF HasUnknown
  <2> QED
    BY <1>1, <2>1
<1>9. TakeUnknown(State(ws, k, start, end, done, args), word) = st
  BY <1>1, UnknownOfState
<1>10. Shaped(args)
  BY DEF ArgsAre
<1> SUFFICES \E after :
      /\ ArgsAre(after, words, T \cup {k})
      /\ Take(st, word) = State(ws, IF WantsNext(word) /\ k < Len(words) THEN k + 2 ELSE k + 1,
                                start, end, done, after)
  BY <1>1, <1>9 DEF TakesOption
<1>2. st.words = ws /\ st.optind = k
  BY <1>1 DEF State
<1>3. /\ Failed(st) = State(ws, k + 1, start, end, done, RegisterError(args))
      /\ \A option, value, used : Got(st, option, value, used) =
           State(ws, k + used, start, end, done, Scan(first, option, value))
  <2>1. RegisterError(first) = RegisterError(args)
    <3>1. "help" \in LongNames
      BY DEF LongNames, Literals
    <3>2. LET x == IF early THEN RegisterError(args) ELSE args
          IN RegisterError(x) = RegisterError(args)
      BY <1>0, <1>10, <3>1, ErrorFirst
    <3> QED
      BY <1>1, <3>2
  <2> QED
    BY <1>1, <2>1, StepsOfState
(* What is refused *)
<1>4. ASSUME Mistaken(words, k), ~(WantsNext(word) /\ k < Len(words)),
             \A o \in Literals : OptionOf(word) = {o} => word.attached # None,
             Take(st, word) = Failed(st)
      PROVE  \E after :
               /\ ArgsAre(after, words, T \cup {k})
               /\ Take(st, word) = State(ws, IF WantsNext(word) /\ k < Len(words) THEN k + 2 ELSE k + 1,
                                         start, end, done, after)
  <2>1. ArgsAre(RegisterError(args), words, T \cup {k})
    BY <1>1, <1>4, ArgsRefused
  <2> QED
    BY <1>3, <1>4, <2>1
<1>5. CASE OptionOf(word) = {}
  <2>1. Mistaken(words, k) /\ ~WantsNext(word)
    BY <1>1, <1>5 DEF Mistaken, WantsNext
  <2>2. Take(st, word) = Failed(st)
    BY <1>5 DEF Take, TakeLong, TakeShort, OptionOf
  <2> QED
    BY <1>1, <1>4, <1>5, <2>1, <2>2
<1>6. ASSUME NEW o \in Literals, OptionOf(word) = {o}
      PROVE  \E after :
               /\ ArgsAre(after, words, T \cup {k})
               /\ Take(st, word) = State(ws, IF WantsNext(word) /\ k < Len(words) THEN k + 2 ELSE k + 1,
                                         start, end, done, after)
  <2>1. word.kind = "long" /\ LongOption(word.name) = {o}
    BY <1>6 DEF OptionOf, LetterOf, Literals
  <2>2. (CHOOSE n \in LongOption(word.name) : TRUE) = o
    BY <2>1
  <2>3. Take(st, word) = IF word.attached # None THEN Failed(st) ELSE Got(st, o, None, 1)
    BY <2>1, <2>2 DEF Take, TakeLong
  <2>4. ~WantsNext(word) /\ o \notin Numeric
        /\ (Mistaken(words, k) <=> early \/ word.attached # None)
    BY <1>1, <1>6, MistakenIs DEF LongNames
  <2>5. CASE word.attached # None
    BY <1>4, <1>6, <2>3, <2>4, <2>5
  <2>6. CASE word.attached = None
    <3>1. ValueOf(words, k) = None
      BY <1>1, <2>4, <2>6 DEF ValueOf
    <3>2. o \in LongNames
      BY DEF LongNames
    <3>3. LET scanned == Scan(args, o, ValueOf(words, k))
          IN ArgsAre(IF early THEN RegisterError(scanned) ELSE scanned, words, T \cup {k})
      <4>1. Mistaken(words, k)
              <=> \/ early
                  \/ o \in Numeric /\ ~(IsInt(ValueOf(words, k)) /\ Fits(ValueOf(words, k)))
        BY <2>4, <2>6
      <4> QED
        BY <1>0, <1>1, <1>6, <2>6, <3>2, <4>1, ArgsTaken
    <3>4. ArgsAre(Scan(first, o, None), words, T \cup {k})
      <4>1. LET x == IF early THEN RegisterError(args) ELSE args
            IN (IF FALSE THEN RegisterError(Scan(x, o, None)) ELSE Scan(x, o, None))
                 = IF early \/ FALSE THEN RegisterError(Scan(args, o, None))
                   ELSE Scan(args, o, None)
        BY <1>0, <1>10, <3>2, ErrorFirst
      <4>2. Scan(first, o, None) =
              IF early THEN RegisterError(Scan(args, o, None)) ELSE Scan(args, o, None)
        BY <1>1, <4>1
      <4> QED
        BY <3>1, <3>3, <4>2
    <3>5. Take(st, word) = State(ws, k + 1, start, end, done, Scan(first, o, None))
      BY <1>3, <2>3, <2>6
    <3> QED
      BY <2>4, <3>4, <3>5
  <2> QED
    BY <2>5, <2>6
<1>7. ASSUME NEW o \in Valued, OptionOf(word) = {o}
      PROVE  \E after :
               /\ ArgsAre(after, words, T \cup {k})
               /\ Take(st, word) = State(ws, IF WantsNext(word) /\ k < Len(words) THEN k + 2 ELSE k + 1,
                                         start, end, done, after)
  <2> DEFINE bad == word.kind = "long" /\ ValueOf(words, k) = Text("")
             empty == Text("") \in {word.attached} \cup
                        (IF word.attached = None /\ k < Len(ws) THEN {ws[k + 1]} ELSE {})
             taken == TakeValue(st, o, word.attached)
  <2>1. o \in LongNames
    BY DEF LongNames
  <2>2. /\ o \notin Literals
        /\ WantsNext(word) <=> word.attached = None
        /\ HasValue(words, k) <=> (WantsNext(word) => k < Len(words))
        /\ ~HasValue(words, k) => Mistaken(words, k)
        /\ HasValue(words, k) =>
             (Mistaken(words, k)
                <=> \/ early
                    \/ word.kind = "long" /\ ValueOf(words, k) = Text("")
                    \/ /\ o \in Numeric
                       /\ ~(IsInt(ValueOf(words, k)) /\ Fits(ValueOf(words, k))))
    BY <1>1, <1>7, <2>1, MistakenIs
  <2>3. taken = IF HasValue(words, k)
                THEN State(ws, IF WantsNext(word) THEN k + 2 ELSE k + 1, start, end, done,
                           Scan(first, o, ValueOf(words, k)))
                ELSE Failed(st)
    <3>1. OptionOf(words[k]) = {o}
      BY <1>1, <1>7
    <3>2. TakesValue(words, ws, k, start, end, done, first, o)
      BY <3>1, ValueTaken
    <3>3. Failed(st) = State(ws, k + 1, start, end, done, RegisterError(first))
      BY <1>1, StepsOfState
    <3> QED
      BY <1>1, <3>2, <3>3 DEF TakesValue
  <2>4. None # Text("")
    BY CommandLineAssumption DEF CommandLineAssumption
  <2>5. empty <=> HasValue(words, k) /\ ValueOf(words, k) = Text("")
    <3>1. CASE word.attached # None
      <4>1. ValueOf(words, k) = word.attached /\ HasValue(words, k)
        BY <1>1, <2>2, <3>1 DEF ValueOf
      <4> QED
        BY <3>1, <4>1
    <3>2. CASE word.attached = None /\ k < Len(words)
      <4>1. ValueOf(words, k) = ws[k + 1] /\ HasValue(words, k)
        BY <1>1, <2>2, <3>2 DEF ValueOf
      <4> QED
        BY <2>4, <3>2, <4>1
    <3>3. CASE word.attached = None /\ ~(k < Len(words))
      BY <2>2, <2>4, <3>3
    <3> QED
      BY <3>1, <3>2, <3>3
  <2>6. Take(st, word) = IF word.kind = "long" /\ empty THEN [taken EXCEPT !.args = RegisterError(@)]
                         ELSE taken
    <3>1. CASE word.kind = "long"
      <4>1. LongOption(word.name) = {o}
        BY <1>7, <3>1 DEF OptionOf
      <4>2. (CHOOSE n \in LongOption(word.name) : TRUE) = o
        BY <4>1
      <4>3. LongOption(word.name) # {}
        BY <4>1
      <4>4. Take(st, word) = TakeLong(st, word)
        BY <3>1 DEF Take
      <4> QED
        BY <1>2, <2>2, <3>1, <4>2, <4>3, <4>4 DEF TakeLong
    <3>2. CASE word.kind # "long"
      <4>1. word.kind = "short" /\ word.letter \in DOMAIN LetterOf /\ LetterOf[word.letter] = o
        BY <1>7, <3>2 DEF OptionOf
      <4> QED
        BY <3>2, <4>1 DEF Take, TakeShort
    <3> QED
      BY <3>1, <3>2
  <2>7. CASE ~HasValue(words, k)
    <3>1. ArgsAre(RegisterError(args), words, T \cup {k})
      <4>1. \A p \in Literals : OptionOf(words[k]) = {p} => words[k].attached # None
        BY <1>1, <1>7, <2>2
      <4> QED
        BY <2>2, <2>7, <4>1, ArgsRefused
    <3>2. Take(st, word) = State(ws, k + 1, start, end, done, RegisterError(args))
      <4> HIDE DEF empty, taken
      <4> QED
        BY <1>3, <2>3, <2>5, <2>6, <2>7
    <3> QED
      BY <2>2, <2>7, <3>1, <3>2
  <2>8. CASE HasValue(words, k)
    <3>1. PICK scanned, j : /\ scanned = Scan(first, o, ValueOf(words, k))
                            /\ j = IF WantsNext(word) /\ k < Len(words) THEN k + 2 ELSE k + 1
      OBVIOUS
    <3>2. taken = State(ws, j, start, end, done, scanned)
      <4> HIDE DEF taken
      <4> QED
        BY <2>2, <2>3, <2>8, <3>1
    <3>3. Take(st, word) = State(ws, j, start, end, done,
                                 IF bad THEN RegisterError(scanned) ELSE scanned)
      <4> HIDE DEF taken, empty
      <4>1. CASE bad
        <5>1. PICK e : e = RegisterError(scanned)
          OBVIOUS
        <5>2. taken.args = scanned
          BY <3>2 DEF State
        <5>3. Take(st, word) = [taken EXCEPT !.args = e]
          BY <2>5, <2>6, <2>8, <4>1, <5>1, <5>2
        <5> QED
          BY <3>2, <4>1, <5>1, <5>3 DEF State
      <4>2. CASE ~bad
        BY <2>5, <2>6, <2>8, <3>2, <4>2
      <4> QED
        BY <4>1, <4>2
    <3>4. ArgsAre(IF bad THEN RegisterError(scanned) ELSE scanned, words, T \cup {k})
      <4>1. Mistaken(words, k)
              <=> \/ early \/ bad
                  \/ o \in Numeric /\ ~(IsInt(ValueOf(words, k)) /\ Fits(ValueOf(words, k)))
        BY <2>2, <2>8
      <4>2. o \in Literals => words[k].attached = None
        BY <2>2
      <4>3. bad \in BOOLEAN
        OBVIOUS
      <4> HIDE DEF bad
      <4>4. LET s == Scan(args, o, ValueOf(words, k))
            IN ArgsAre(IF early \/ bad THEN RegisterError(s) ELSE s, words, T \cup {k})
        <5>1. (early \/ bad) \in BOOLEAN
          OBVIOUS
        <5>2. PICK either \in BOOLEAN : either = (early \/ bad)
          BY <5>1
        <5> QED
          BY <1>1, <1>7, <2>1, <4>1, <4>2, <5>2, ArgsTaken
      <4>5. LET x == IF early THEN RegisterError(args) ELSE args
                v == ValueOf(words, k)
            IN (IF bad THEN RegisterError(Scan(x, o, v)) ELSE Scan(x, o, v))
                 = IF early \/ bad THEN RegisterError(Scan(args, o, v)) ELSE Scan(args, o, v)
        BY <1>0, <1>10, <2>1, <4>3, ErrorFirst
      <4> QED
        BY <1>1, <3>1, <4>4, <4>5
    <3> HIDE DEF bad
    <3> QED
      BY <3>1, <3>3, <3>4
  <2> QED
    BY <2>7, <2>8
<1>8. \/ OptionOf(word) = {} \/ (\E o \in Literals : OptionOf(word) = {o})
      \/ (\E o \in Valued : OptionOf(word) = {o})
  BY OptionOfOne DEF LongNames
<1> QED
  BY <1>5, <1>6, <1>7, <1>8

-----------------------------------------------------------------------------
(* getopt_internal(), call by call                                          *)

TaggedTo(words, k) == {i \in 1 .. k - 1 : Roles(words)[i] = "option" /\ words[i].kind # "end"}

(* Before word k, and when there are no more options *)
Going(words, oth, S, ws, k, start, end, args) ==
  /\ ws \in Seq(S) /\ Len(ws) = Len(words)
  /\ k \in 1 .. Len(words) + 1
  /\ \A i \in k .. Len(words) : ws[i] = words[i]
  /\ Skipped(ws, k, start, end, oth[k - 1])
  /\ Upto(words, k)
  /\ ArgsAre(args, words, TaggedTo(words, k))

Ended(words, ws, k, args) ==
  /\ Len(ws) = Len(words)
  /\ SubSeq(ws, k, Len(words)) = Others(words)
  /\ ArgsAre(args, words, Tagged(words))

(* The parser after a number of calls *)
Underway(words, oth, S, i, st) ==
  \E ws, k, start, end, args :
    /\ st = State(ws, k, start, end, FALSE, args)
    /\ k > i /\ Going(words, oth, S, ws, k, start, end, args)

Over(words, st) ==
  \E ws, k, start, args :
    st = State(ws, k, start, 0, TRUE, args) /\ Ended(words, ws, k, args)

LEMMA RestIs ==
  ASSUME NEW S, NEW ws \in Seq(S), NEW a \in 1 .. Len(ws) + 1, NEW rest \in Seq(S),
         a + Len(rest) = Len(ws) + 1,
         \A p \in 1 .. Len(rest) : ws[a + p - 1] = rest[p]
  PROVE  SubSeq(ws, a, Len(ws)) = rest
<1>1. PICK n, m, sub : n = Len(ws) /\ m = Len(rest) /\ sub = SubSeq(ws, a, n)
  OBVIOUS
<1>2. n \in Nat /\ m \in Nat /\ a \in Nat /\ n - a + 1 = m
  BY <1>1
<1>3. sub \in Seq(S) /\ Len(sub) = m /\ \A p \in 1 .. m : sub[p] = ws[a + p - 1]
  <2>1. n \in Int /\ a \in Int /\ \A p \in a .. n : ws[p] \in S
    BY <1>1, <1>2
  <2>2. /\ SubSeq(ws, a, n) \in Seq(S)
        /\ Len(SubSeq(ws, a, n)) = IF a <= n THEN n - a + 1 ELSE 0
        /\ \A p \in 1 .. n - a + 1 : SubSeq(ws, a, n)[p] = ws[a + p - 1]
    BY <2>1, SubSeqProperties
  <2>3. (IF a <= n THEN n - a + 1 ELSE 0) = m
    BY <1>2
  <2> QED
    BY <1>1, <1>2, <2>2, <2>3
<1>4. \A p \in 1 .. m : sub[p] = rest[p]
  BY <1>1, <1>3
<1>5. Len(sub) = Len(rest) /\ \A p \in 1 .. Len(sub) : sub[p] = rest[p]
  BY <1>1, <1>3, <1>4
<1>6. sub = rest
  BY <1>3, <1>5, SeqEqual
<1> QED
  BY <1>1, <1>6

(* Found(): the first option behind the skipped words                       *)
LEMMA SkippedFound ==
  ASSUME NEW ws, NEW k \in Nat \ {0}, NEW start, NEW end, NEW o, Len(o) \in Nat,
         Skipped(ws, k, start, end, o), NEW j \in Nat, j > k
  PROVE  Skipped(ws, j, start, IF start # 0 /\ end = 0 THEN k ELSE end, o)
<1>1. PICK e, m : e = (IF start # 0 /\ end = 0 THEN k ELSE end) /\ m = Len(o)
  OBVIOUS
<1>2. start \in Nat /\ end \in Nat /\ m \in Nat
  BY <1>1 DEF Skipped
<1>3. e \in Nat
  BY <1>1, <1>2
<1>4. start = 0 => Len(o) = 0 /\ e = 0
  BY <1>1 DEF Skipped
<1>5. ASSUME start # 0
      PROVE  /\ Len(o) > 0
             /\ \A p \in 1 .. Len(o) : ws[start + p - 1] = o[p]
             /\ e = 0 => start + Len(o) = j
             /\ e # 0 => e = start + Len(o) /\ e < j
  <2>1. /\ Len(o) > 0
        /\ \A p \in 1 .. Len(o) : ws[start + p - 1] = o[p]
    BY <1>5 DEF Skipped
  <2>2. e # 0 /\ e = start + Len(o) /\ e < j
    <3>1. CASE end = 0
      <4>1. start + Len(o) = k /\ e = k
        BY <1>1, <1>5, <3>1 DEF Skipped
      <4> QED
        BY <4>1
    <3>2. CASE end # 0
      <4>1. end = start + Len(o) /\ end < k /\ e = end
        BY <1>1, <1>5, <3>2 DEF Skipped
      <4> QED
        BY <1>2, <3>2, <4>1
    <3> QED
      BY <3>1, <3>2
  <2> QED
    BY <2>1, <2>2
<1>6. Skipped(ws, j, start, e, o)
  BY <1>2, <1>3, <1>4, <1>5 DEF Skipped
<1> QED
  BY <1>1, <1>6

LEMMA OptionsRunOut ==
  ASSUME NEW S, NEW words \in Seq(S), NEW oth, Kept(oth, words), Others(words) = oth[Len(words)],
         NEW ws, NEW k, NEW start, NEW end, NEW args,
         Going(words, oth, S, ws, k, start, end, args), k > Len(words)
  PROVE  Over(words, Getopt(State(ws, k, start, end, FALSE, args)))
<1>1. PICK n, o, st, after, p : /\ n = Len(words) /\ o = oth[n]
                             /\ st = State(ws, k, start, end, FALSE, args)
                             /\ after = Gathered(ws, k, start, end)
                             /\ p = Permuted(st)
  OBVIOUS
<1>2. n \in Nat /\ k = n + 1 /\ k \in Nat /\ k - 1 = n /\ ws \in Seq(S) /\ Len(ws) = n
  BY <1>1 DEF Going
<1>3. o \in Seq(S)
  <2>1. n \in 0 .. Len(words)
    BY <1>1, <1>2
  <2> QED
    BY <1>1, <2>1, KeptWords
<1>4. Skipped(ws, k, start, end, o) /\ k \in 1 .. Len(ws) + 1
  BY <1>1, <1>2 DEF Going
<1>5. /\ after \in Seq(S) /\ Len(after) = n
      /\ Before(after, k, o)
      /\ k - Len(o) \in 1 .. k
      /\ start # 0 /\ end = 0 => start = k - Len(o)
      /\ end # 0 => k - (end - start) = k - Len(o)
      /\ start = 0 => Len(o) = 0
  <2>1. Brought(S, ws, k, start, end, o)
    BY <1>2, <1>3, <1>4, GatheredBefore
  <2> QED
    BY <1>1, <1>2, <2>1 DEF Brought
<1>6. p = State(after, IF end = 0 THEN k ELSE k - (end - start),
                IF end = 0 THEN start ELSE 0, 0, FALSE, args)
  <2>1. PermutedIs(ws, k, start, end, FALSE, args)
    BY StepsOfState
  <2> QED
    BY <1>1, <2>1 DEF PermutedIs
<1>7. st.words = ws /\ st.optind = k /\ st.start = start /\ st.end = end /\ st.done = FALSE
  BY <1>1 DEF State
<1>8. Getopt(st) = [p EXCEPT !.done = TRUE,
                      !.optind = IF end = 0 /\ start # 0 THEN start ELSE p.optind]
  BY <1>1, <1>2, <1>7 DEF Getopt
<1>9. p.optind = IF end = 0 THEN k ELSE k - (end - start)
  BY <1>6 DEF State
<1>10. (IF end = 0 /\ start # 0 THEN start ELSE p.optind) = k - Len(o)
  BY <1>2, <1>3, <1>5, <1>9
<1>11. PICK j, s : j = k - Len(o) /\ s = IF end = 0 THEN start ELSE 0
  OBVIOUS
<1>12. Getopt(st) = State(after, j, s, 0, TRUE, args)
  <2>1. PICK i : p = State(after, i, s, 0, FALSE, args)
    BY <1>6, <1>11
  <2>2. Getopt(st) = [p EXCEPT !.done = TRUE, !.optind = j]
    BY <1>8, <1>10, <1>11
  <2> QED
    BY <2>1, <2>2 DEF State
<1>13. SubSeq(after, j, n) = o
  <2>1. j \in 1 .. Len(after) + 1 /\ j + Len(o) = Len(after) + 1
    BY <1>2, <1>3, <1>5, <1>11
  <2>2. \A q \in 1 .. Len(o) : after[j + q - 1] = o[q]
    BY <1>5, <1>11 DEF Before
  <2>3. SubSeq(after, j, Len(after)) = o
    BY <1>3, <1>5, <2>1, <2>2, RestIs
  <2> QED
    BY <1>5, <2>3
<1>14. TaggedTo(words, k) = Tagged(words)
  BY <1>1, <1>2 DEF TaggedTo, Tagged
<1>15. Ended(words, after, j, args)
  BY <1>1, <1>5, <1>13, <1>14 DEF Ended, Going
<1> QED
  BY <1>1, <1>12, <1>15 DEF Over

LEMMA WordSkipped ==
  ASSUME NEW S, NEW words \in Seq(S), NEW oth, Kept(oth, words),
         NEW ws, NEW k, NEW start, NEW end, NEW args,
         Going(words, oth, S, ws, k, start, end, args), k <= Len(words), ~IsOption(words[k]),
         ~PosixlyCorrect
  PROVE  Underway(words, oth, S, k, Getopt(State(ws, k, start, end, FALSE, args)))
<1>1. PICK n, o, st, after : /\ n = Len(words) /\ o = oth[k - 1]
                             /\ st = State(ws, k, start, end, FALSE, args)
                             /\ after = Gathered(ws, k, start, end)
  OBVIOUS
<1>2. /\ n \in Nat /\ k \in 1 .. n /\ k \in Nat /\ k - 1 \in 0 .. n /\ k - 1 \in Nat
      /\ ws \in Seq(S) /\ Len(ws) = n
  BY <1>1 DEF Going
<1>3. o \in Seq(S)
  BY <1>1, <1>2, KeptWords
<1>4. Skipped(ws, k, start, end, o) /\ k \in 1 .. Len(ws) + 1
  BY <1>1, <1>2 DEF Going
<1>5. /\ after \in Seq(S) /\ Len(after) = n
      /\ Before(after, k, o)
      /\ \A i \in k .. n : after[i] = ws[i]
      /\ k - Len(o) \in 1 .. k
      /\ start # 0 /\ end = 0 => start = k - Len(o)
      /\ end # 0 => k - (end - start) = k - Len(o)
      /\ start = 0 => Len(o) = 0
  <2>1. Brought(S, ws, k, start, end, o)
    BY <1>2, <1>3, <1>4, GatheredBefore
  <2> QED
    BY <1>1, <1>2, <2>1 DEF Brought
<1>6. PICK s : s = k - Len(o)
  OBVIOUS
<1>7. Skip(st) = State(after, k + 1, s, 0, FALSE, args)
  <2>1. Skip(st) = State(after, k + 1,
                         IF start = 0 THEN k ELSE IF end = 0 THEN start ELSE k - (end - start),
                         0, FALSE, args)
    <3>1. SkipIs(ws, k, start, end, FALSE, args)
      BY StepsOfState
    <3> QED
      BY <1>1, <3>1 DEF SkipIs
  <2>2. (IF start = 0 THEN k ELSE IF end = 0 THEN start ELSE k - (end - start)) = s
    BY <1>2, <1>3, <1>5, <1>6
  <2> QED
    BY <2>1, <2>2
<1>8. Getopt(st) = Skip(st)
  <2>1. st.words = ws /\ st.optind = k /\ st.done = FALSE /\ ws[k] = words[k]
    BY <1>1, <1>2 DEF State, Going
  <2>2. ~(k > Len(ws))
    BY <1>1, <1>2
  <2> QED
    BY <2>1, <2>2 DEF Getopt, SkipOrStop
<1>9. Roles(words)[k] = "other" /\ Upto(words, k + 1)
  <2>1. Upto(words, k) /\ k \in 1 .. Len(words)
    BY <1>1, <1>2 DEF Going
  <2>2. Roles(words)[k] = "other"
    BY <2>1, RoleUpto
  <2>3. Upto(words, k + 1)
    BY <2>1, <2>2, UptoNext DEF EndsAll
  <2> QED
    BY <2>2, <2>3
<1>10. oth[k] = Append(o, words[k])
  BY <1>1, <1>2, <1>9 DEF Kept
<1>11. PICK now : now = Append(o, words[k])
  OBVIOUS
<1>12. /\ words[k] \in S /\ Len(o) \in Nat /\ Len(now) = Len(o) + 1
       /\ now[Len(o) + 1] = words[k] /\ \A p \in 1 .. Len(o) : now[p] = o[p]
  BY <1>1, <1>2, <1>3, <1>11
<1>13. ASSUME NEW p \in 1 .. Len(now) PROVE after[s + p - 1] = now[p]
  <2>1. CASE p = Len(o) + 1
    <3>1. s + p - 1 = k
      BY <1>2, <1>6, <1>12, <2>1
    <3>2. after[k] = words[k]
      BY <1>1, <1>2, <1>5 DEF Going
    <3> QED
      BY <1>12, <2>1, <3>1, <3>2
  <2>2. CASE p # Len(o) + 1
    <3>1. p \in 1 .. Len(o)
      BY <1>12, <2>2
    <3> QED
      BY <1>5, <1>6, <1>12, <3>1 DEF Before
  <2> QED
    BY <2>1, <2>2
<1>14. Skipped(after, k + 1, s, 0, now)
  <2>1. s \in Nat /\ s # 0 /\ Len(now) > 0 /\ s + Len(now) = k + 1
    BY <1>2, <1>5, <1>6, <1>12
  <2> QED
    BY <1>13, <2>1 DEF Skipped
<1>15. TaggedTo(words, k + 1) = TaggedTo(words, k)
  <2>1. (k + 1) - 1 = k
    BY <1>2
  <2> QED
    BY <1>2, <1>9, <2>1 DEF TaggedTo
<1>16. \A i \in k + 1 .. n : after[i] = words[i]
  BY <1>1, <1>2, <1>5 DEF Going
<1>17. Going(words, oth, S, after, k + 1, s, 0, args)
  <2>1. (k + 1) - 1 = k /\ k + 1 \in 1 .. n + 1
    BY <1>2
  <2>2. Skipped(after, k + 1, s, 0, oth[(k + 1) - 1])
    BY <1>10, <1>11, <1>14, <2>1
  <2>3. ArgsAre(args, words, TaggedTo(words, k + 1))
    BY <1>15 DEF Going
  <2> QED
    BY <1>1, <1>5, <1>9, <1>16, <2>1, <2>2, <2>3 DEF Going
<1>18. \E a, j, b, e, c : /\ Getopt(st) = State(a, j, b, e, FALSE, c)
                         /\ j > k /\ Going(words, oth, S, a, j, b, e, c)
  <2>1. k + 1 > k
    BY <1>2
  <2> QED
    BY <1>7, <1>8, <1>17, <2>1
<1> QED
  BY <1>1, <1>18, Zenon DEF Underway

(* A word that is no option, where none is skipped: no word is out of place. *)
LEMMA OptionsStop ==
  ASSUME NEW S, NEW words \in Seq(S), NEW oth, Kept(oth, words), Others(words) = oth[Len(words)],
         NEW ws, NEW k, NEW start, NEW end, NEW args,
         Going(words, oth, S, ws, k, start, end, args), k <= Len(words), ~IsOption(words[k]),
         PosixlyCorrect
  PROVE  Over(words, Getopt(State(ws, k, start, end, FALSE, args)))
<1>1. PICK n, b, o, st, last : /\ n = Len(words) /\ b = k - 1 /\ o = oth[b]
                               /\ st = State(ws, k, start, end, FALSE, args)
                               /\ last = oth[n]
  OBVIOUS
<1>2. /\ n \in Nat /\ k \in 1 .. n /\ k \in Nat /\ b \in 0 .. n /\ b \in Nat /\ k = b + 1
      /\ ws \in Seq(S) /\ Len(ws) = n
  BY <1>1 DEF Going
<1>3. Upto(words, k) /\ Roles(words)[k] = "other"
  <2>1. Upto(words, k) /\ k \in 1 .. Len(words)
    BY <1>1, <1>2 DEF Going
  <2> QED
    BY <2>1, RoleUpto
<1>4. \A i \in k .. n : Roles(words)[i] = "other"
  <2>1. \A i \in k + 1 .. n : Roles(words)[i] = "other"
    BY <1>1, <1>2, <1>3, BehindEnd DEF EndsAll
  <2> QED
    BY <1>2, <1>3, <2>1
<1>5. Len(o) = 0
  <2>1. \A j \in 1 .. b : Roles(words)[j] # "other"
    BY <1>1, <1>3 DEF Upto, EndsAll
  <2>2. {j \in 1 .. b : Roles(words)[j] = "other"} = {}
    BY <2>1
  <2>3. Len(o) = Cardinality({j \in 1 .. b : Roles(words)[j] = "other"})
    BY <1>1, <1>2, KeptWords
  <2> QED
    BY <2>2, <2>3, FS_EmptySet
<1>6. start = 0 /\ end = 0
  <2>1. Skipped(ws, k, start, end, o)
    BY <1>1, <1>2 DEF Going
  <2> QED
    BY <1>5, <2>1 DEF Skipped
<1>7. Getopt(st) = State(ws, k, 0, 0, TRUE, args)
  <2>1. st.words = ws /\ st.optind = k /\ st.done = FALSE /\ ws[k] = words[k]
    BY <1>1, <1>2 DEF State, Going
  <2>2. ~(k > Len(ws))
    BY <1>1, <1>2
  <2>3. Getopt(st) = Stop(st)
    BY <2>1, <2>2 DEF Getopt, SkipOrStop
  <2> QED
    BY <1>1, <1>6, <2>3, StopOfState
<1>8. /\ last \in Seq(S) /\ Len(last) = n - b
      /\ \A p \in 1 .. n - b : last[p] = words[b + p]
  <2>1. \A i \in b + 1 .. Len(words) : Roles(words)[i] = "other"
    BY <1>1, <1>2, <1>4
  <2>2. AllBehind(oth, words, b)
    BY <1>1, <1>2, <2>1, KeptBehind
  <2>3. PICK d : d = n - b
    OBVIOUS
  <2>4. d \in 0 .. Len(words) - b /\ b + d = n /\ d \in Nat
    BY <1>1, <1>2, <2>3
  <2>5. /\ Len(oth[b + d]) = Len(oth[b]) + d
        /\ \A p \in 1 .. d : oth[b + d][Len(oth[b]) + p] = words[b + p]
    BY <2>2, <2>4 DEF AllBehind
  <2>6. Len(last) = d /\ \A p \in 1 .. d : last[p] = words[b + p]
    BY <1>1, <1>5, <2>4, <2>5
  <2>7. last \in Seq(S)
    <3>1. n \in 0 .. Len(words)
      BY <1>1, <1>2
    <3> QED
      BY <1>1, <3>1, KeptWords
  <2> QED
    BY <2>3, <2>6, <2>7
<1>9. SubSeq(ws, k, n) = last
  <2>1. k \in 1 .. Len(ws) + 1 /\ k + Len(last) = Len(ws) + 1
    BY <1>2, <1>8
  <2>2. ASSUME NEW p \in 1 .. Len(last) PROVE ws[k + p - 1] = last[p]
    <3>1. PICK i : i = b + p
      OBVIOUS
    <3>2. k + p - 1 = i /\ i \in k .. n /\ p \in 1 .. n - b
      BY <1>2, <1>8, <3>1
    <3>3. ws[i] = words[i]
      BY <1>1, <3>2 DEF Going
    <3> QED
      BY <1>8, <3>1, <3>2, <3>3
  <2>3. SubSeq(ws, k, Len(ws)) = last
    BY <1>2, <1>8, <2>1, <2>2, RestIs
  <2> QED
    BY <1>2, <2>3
<1>10. TaggedTo(words, k) = Tagged(words)
  <2>1. \A i \in 1 .. n : Roles(words)[i] = "option" => i \in 1 .. k - 1
    BY <1>2, <1>4
  <2>2. DOMAIN words = 1 .. n /\ \A i \in 1 .. k - 1 : i \in 1 .. n
    BY <1>1, <1>2
  <2> QED
    BY <2>1, <2>2 DEF TaggedTo, Tagged
<1>11. Ended(words, ws, k, args)
  <2>1. ArgsAre(args, words, Tagged(words))
    BY <1>10 DEF Going
  <2> QED
    BY <1>1, <1>2, <1>9, <2>1 DEF Ended
<1> QED
  BY <1>1, <1>7, <1>11 DEF Over

(* "--": the words behind it are left as they are.                          *)
LEMMA OptionsEnd ==
  ASSUME NEW S, NEW words \in Seq(S), NEW oth, Kept(oth, words), Others(words) = oth[Len(words)],
         NEW ws, NEW k, NEW start, NEW end, NEW args,
         Going(words, oth, S, ws, k, start, end, args), k <= Len(words), words[k].kind = "end"
  PROVE  Over(words, Getopt(State(ws, k, start, end, FALSE, args)))
<1>1. PICK n, o, st, e, b : /\ n = Len(words) /\ o = oth[k - 1]
                            /\ st = State(ws, k, start, end, FALSE, args)
                            /\ e = (IF start # 0 /\ end = 0 THEN k ELSE end)
                            /\ b = k + 1
  OBVIOUS
<1>2. /\ n \in Nat /\ k \in 1 .. n /\ k \in Nat \ {0} /\ k - 1 \in 0 .. n /\ k - 1 \in Nat
      /\ ws \in Seq(S) /\ Len(ws) = n /\ b \in 1 .. Len(ws) + 1 /\ b \in Nat /\ b > k /\ b - 1 = k
  BY <1>1 DEF Going
<1>3. o \in Seq(S) /\ Len(o) \in Nat
  <2>1. o \in Seq(S)
    BY <1>1, <1>2, KeptWords
  <2> QED
    BY <2>1
<1>4. Skipped(ws, b, start, e, o)
  <2>1. Skipped(ws, k, start, end, o)
    BY <1>1, <1>2 DEF Going
  <2>2. Skipped(ws, b, start, IF start # 0 /\ end = 0 THEN k ELSE end, o)
    BY <1>2, <1>3, <2>1, SkippedFound
  <2> QED
    BY <1>1, <2>2
<1>5. PICK after : after = Gathered(ws, b, start, e)
  OBVIOUS
<1>6. /\ after \in Seq(S) /\ Len(after) = n
      /\ Before(after, b, o)
      /\ \A i \in b .. n : after[i] = ws[i]
      /\ b - Len(o) \in 1 .. b
      /\ e # 0 => b - (e - start) = b - Len(o)
      /\ start = 0 => Len(o) = 0
  <2>1. Brought(S, ws, b, start, e, o)
    BY <1>2, <1>3, <1>4, GatheredBefore
  <2> QED
    BY <1>2, <1>5, <2>1 DEF Brought
<1>7. PICK j, s : j = b - Len(o) /\ s = IF e = 0 THEN start ELSE 0
  OBVIOUS
<1>8. PICK found, gone, p : /\ found = Found(st) /\ gone = [found EXCEPT !.optind = @ + 1]
                            /\ p = Permuted(gone)
  OBVIOUS
<1>9. found = State(ws, k, start, e, FALSE, args)
  <2>1. FoundIs(ws, k, start, end, FALSE, args)
    BY StepsOfState
  <2> QED
    BY <1>1, <1>8, <2>1 DEF FoundIs
<1>10. gone = State(ws, b, start, e, FALSE, args)
  <2>1. b = k + 1
    BY <1>1
  <2>2. found.optind = k
    BY <1>9 DEF State
  <2>3. gone = [found EXCEPT !.optind = b]
    BY <1>8, <2>1, <2>2
  <2> QED
    BY <1>9, <2>3 DEF State
<1>11. p = State(after, j, s, 0, FALSE, args)
  <2>1. p = State(Gathered(ws, b, start, e), IF e = 0 THEN b ELSE b - (e - start),
                  IF e = 0 THEN start ELSE 0, 0, FALSE, args)
    <3>1. PermutedIs(ws, b, start, e, FALSE, args)
      BY StepsOfState
    <3> QED
      BY <1>8, <1>10, <3>1 DEF PermutedIs
  <2>2. (IF e = 0 THEN b ELSE b - (e - start)) = j
    <3>1. CASE e = 0
      <4>1. start = 0
        BY <1>1, <1>2, <3>1
      <4> QED
        BY <1>2, <1>6, <1>7, <3>1, <4>1
    <3>2. CASE e # 0
      BY <1>6, <1>7, <3>2
    <3> QED
      BY <3>1, <3>2
  <2> QED
    BY <1>5, <1>7, <2>1, <2>2
<1>12. Getopt(st) = [p EXCEPT !.done = TRUE]
  <2>1. st.words = ws /\ st.optind = k /\ st.done = FALSE /\ ws[k] = words[k]
    BY <1>1, <1>2 DEF State, Going
  <2>2. ~(k > Len(ws)) /\ IsOption(words[k])
    BY <1>1, <1>2 DEF IsOption
  <2> QED
    BY <1>8, <2>1, <2>2 DEF Getopt
<1>13. Getopt(st) = State(after, j, s, 0, TRUE, args)
  BY <1>11, <1>12 DEF State
<1>14. Roles(words)[k] = "option"
  <2>1. Upto(words, k) /\ k \in 1 .. Len(words)
    BY <1>1, <1>2 DEF Going
  <2> QED
    BY <2>1, RoleUpto DEF IsOption
<1>15. \A i \in b .. n : Roles(words)[i] = "other"
  BY <1>1, <1>2, <1>14, BehindEnd DEF EndsAll
<1>16. oth[k] = o
  BY <1>1, <1>2, <1>14 DEF Kept
<1>17. PICK d, last : d = n - k /\ last = oth[n]
  OBVIOUS
<1>18. /\ last \in Seq(S) /\ Len(last) = Len(o) + d /\ d \in Nat
       /\ \A p1 \in 1 .. Len(o) : last[p1] = o[p1]
       /\ \A p1 \in 1 .. d : last[Len(o) + p1] = words[k + p1]
  <2>1. d \in 0 .. Len(words) - k /\ k + d = n /\ k \in 0 .. Len(words)
    BY <1>1, <1>2, <1>17
  <2>2. \A i \in k + 1 .. Len(words) : Roles(words)[i] = "other"
    BY <1>1, <1>15
  <2>3. AllBehind(oth, words, k)
    BY <2>1, <2>2, KeptBehind
  <2>4. n \in 0 .. Len(words)
    BY <1>1, <1>2
  <2>5. last \in Seq(S)
    BY <1>17, <2>4, KeptWords
  <2> QED
    <3>1. /\ Len(oth[k + d]) = Len(oth[k]) + d
          /\ \A p1 \in 1 .. Len(oth[k]) : oth[k + d][p1] = oth[k][p1]
          /\ \A p1 \in 1 .. d : oth[k + d][Len(oth[k]) + p1] = words[k + p1]
      BY <2>1, <2>3 DEF AllBehind
    <3>2. oth[k + d] = last /\ d \in Nat
      BY <1>17, <2>1
    <3> QED
      BY <1>16, <2>5, <3>1, <3>2
<1>19. ASSUME NEW q \in 1 .. Len(last) PROVE after[j + q - 1] = last[q]
  <2>1. CASE q <= Len(o)
    <3>1. q \in 1 .. Len(o)
      BY <1>3, <2>1
    <3> QED
      BY <1>6, <1>7, <1>18, <3>1 DEF Before
  <2>2. CASE q > Len(o)
    <3>1. PICK i, c : i = j + q - 1 /\ c = q - Len(o)
      OBVIOUS
    <3>2. /\ c \in 1 .. d /\ q = Len(o) + c /\ i = k + c /\ i \in b .. n
      <4>1. PICK m : m = Len(o)
        OBVIOUS
      <4>2. m \in Nat /\ q \in 1 .. m + d /\ j = b - m /\ q > m /\ c = q - m
        BY <1>3, <1>7, <1>18, <2>2, <3>1, <4>1
      <4>3. b = k + 1
        BY <1>1
      <4>4. c \in 1 .. d /\ q = m + c
        BY <1>18, <4>2
      <4>5. i = k + c /\ i \in b .. n
        BY <1>2, <1>17, <3>1, <4>2, <4>3, <4>4
      <4> QED
        BY <4>1, <4>4, <4>5
    <3>3. after[i] = words[i]
      BY <1>1, <1>2, <1>6, <3>2 DEF Going
    <3>4. last[q] = words[i]
      BY <1>18, <3>2
    <3> QED
      BY <3>1, <3>3, <3>4
  <2> QED
    BY <1>3, <1>18, <2>1, <2>2
<1>20. SubSeq(after, j, n) = last
  <2>1. j \in 1 .. Len(after) + 1 /\ j + Len(last) = Len(after) + 1
    BY <1>2, <1>3, <1>6, <1>7, <1>17, <1>18
  <2>2. SubSeq(after, j, Len(after)) = last
    BY <1>6, <1>18, <1>19, <2>1, RestIs
  <2> QED
    BY <1>6, <2>2
<1>21. TaggedTo(words, k) = Tagged(words)
  <2>1. \A i \in 1 .. n : Roles(words)[i] = "option" /\ words[i].kind # "end" => i \in 1 .. k - 1
    <3> TAKE i \in 1 .. n
    <3>1. CASE i = k
      BY <1>1, <3>1
    <3>2. CASE i > k
      <4>1. i \in b .. n
        BY <1>1, <1>2, <3>2
      <4> QED
        BY <1>15, <4>1
    <3>3. CASE i < k
      BY <1>2, <3>3
    <3> QED
      BY <1>2, <3>1, <3>2, <3>3
  <2>2. DOMAIN words = 1 .. n /\ \A i \in 1 .. k - 1 : i \in 1 .. n
    BY <1>1, <1>2
  <2> QED
    BY <2>1, <2>2 DEF TaggedTo, Tagged
<1>22. Ended(words, after, j, args)
  <2>1. ArgsAre(args, words, Tagged(words))
    BY <1>21 DEF Going
  <2> QED
    BY <1>1, <1>6, <1>17, <1>20, <2>1 DEF Ended
<1> QED
  BY <1>1, <1>13, <1>22 DEF Over

LEMMA OptionMet ==
  ASSUME NEW S, NEW words \in Seq(S), NEW oth, Kept(oth, words),
         NEW ws, NEW k, NEW start, NEW end, NEW args,
         Going(words, oth, S, ws, k, start, end, args), k <= Len(words),
         IsOption(words[k]), words[k].kind # "end"
  PROVE  Underway(words, oth, S, k, Getopt(State(ws, k, start, end, FALSE, args)))
<1>1. PICK n, o, st, e : /\ n = Len(words) /\ o = oth[k - 1]
                         /\ st = State(ws, k, start, end, FALSE, args)
                         /\ e = IF start # 0 /\ end = 0 THEN k ELSE end
  OBVIOUS
<1>2. /\ n \in Nat /\ k \in 1 .. n /\ k \in Nat \ {0} /\ k - 1 \in 0 .. n /\ k - 1 \in Nat
      /\ ws \in Seq(S) /\ Len(ws) = n
  BY <1>1 DEF Going
<1>3. o \in Seq(S) /\ Len(o) \in Nat
  <2>1. o \in Seq(S)
    BY <1>1, <1>2, KeptWords
  <2> QED
    BY <2>1
<1>4. Upto(words, k) /\ k \in 1 .. Len(words)
  BY <1>1, <1>2 DEF Going
<1>5. Roles(words)[k] = "option"
  BY <1>4, RoleUpto
<1>6. oth[k] = o
  BY <1>1, <1>2, <1>5 DEF Kept
<1>7. Found(st) = State(ws, k, start, e, FALSE, args)
  <2>1. FoundIs(ws, k, start, end, FALSE, args)
    BY StepsOfState
  <2> QED
    BY <1>1, <2>1 DEF FoundIs
<1>8. Getopt(st) = Take(TakeUnknown(State(ws, k, start, e, FALSE, args), words[k]), words[k])
  <2>1. st.words = ws /\ st.optind = k /\ st.done = FALSE /\ ws[k] = words[k]
    BY <1>1, <1>2 DEF State, Going
  <2>2. ~(k > Len(ws))
    BY <1>1, <1>2
  <2>3. Getopt(st) = IF words[k].kind = "long" THEN TakeLong(TakeUnknown(Found(st), words[k]), words[k])
                     ELSE TakeShort(TakeUnknown(Found(st), words[k]), words[k])
    BY <2>1, <2>2 DEF Getopt
  <2> QED
    BY <1>7, <2>3 DEF Take
<1>9. PICK j : j = IF WantsNext(words[k]) /\ k < n THEN k + 2 ELSE k + 1
  OBVIOUS
<1>10. PICK after : /\ ArgsAre(after, words, TaggedTo(words, k) \cup {k})
                    /\ Take(TakeUnknown(State(ws, k, start, e, FALSE, args), words[k]), words[k]) =
                         State(ws, j, start, e, FALSE, after)
  <2>1. /\ k \in Nat /\ Len(words) \in Nat /\ k <= Len(words) /\ Len(ws) = Len(words)
        /\ ~(k \in TaggedTo(words, k)) /\ ArgsAre(args, words, TaggedTo(words, k))
    BY <1>1, <1>2 DEF Going, TaggedTo
  <2>2. k < Len(words) => ws[k + 1] = words[k + 1]
    BY <1>1, <1>2 DEF Going
  <2>3. TakesOption(words, ws, k, start, e, FALSE, args, TaggedTo(words, k))
    BY <2>1, <2>2, OptionTaken
  <2> QED
    BY <1>1, <1>9, <2>3 DEF TakesOption
<1> SUFFICES j > k /\ Going(words, oth, S, ws, j, start, e, after)
  <2>1. Getopt(st) = State(ws, j, start, e, FALSE, after)
    BY <1>8, <1>10
  <2>2. j > k /\ Going(words, oth, S, ws, j, start, e, after) =>
          \E a, i, b, f, c : /\ Getopt(st) = State(a, i, b, f, FALSE, c)
                            /\ i > k /\ Going(words, oth, S, a, i, b, f, c)
    BY <2>1
  <2> QED
    BY <1>1, <2>2, Zenon DEF Underway
<1>11. CASE ~(WantsNext(words[k]) /\ k < n)
  <2>1. j = k + 1 /\ j - 1 = k /\ j \in Nat /\ j > k /\ j \in 1 .. n + 1
    BY <1>2, <1>9, <1>11
  <2>2. Upto(words, j)
    <3>1. Roles(words)[k] = "option" /\ k < Len(words) => ~WantsNext(words[k])
      BY <1>1, <1>11
    <3>2. Upto(words, k + 1)
      BY <1>4, <1>5, <3>1, UptoNext DEF EndsAll
    <3> QED
      BY <2>1, <3>2
  <2>3. Skipped(ws, j, start, e, oth[j - 1])
    <3>1. Skipped(ws, k, start, end, o)
      BY <1>1 DEF Going
    <3>2. Skipped(ws, j, start, IF start # 0 /\ end = 0 THEN k ELSE end, o)
      BY <1>2, <1>3, <2>1, <3>1, SkippedFound
    <3> QED
      BY <1>1, <1>6, <2>1, <3>2
  <2>4. TaggedTo(words, j) = TaggedTo(words, k) \cup {k}
    BY <1>2, <1>5, <2>1 DEF TaggedTo
  <2>5. \A i \in j .. Len(words) : ws[i] = words[i]
    BY <1>1, <1>2, <2>1 DEF Going
  <2>6. ArgsAre(after, words, TaggedTo(words, j))
    BY <1>10, <2>4
  <2>7. Going(words, oth, S, ws, j, start, e, after)
    BY <1>1, <1>2, <2>1, <2>2, <2>3, <2>5, <2>6 DEF Going
  <2> QED
    BY <2>1, <2>7
<1>12. CASE WantsNext(words[k]) /\ k < n
  <2>1. PICK c : c = k + 1
    OBVIOUS
  <2>2. /\ j = k + 2 /\ j - 1 = c /\ c - 1 = k /\ j \in Nat /\ j > k /\ j \in 1 .. n + 1
        /\ c \in 1 .. n
    BY <1>2, <1>9, <1>12, <2>1
  <2>3. Roles(words)[c] = "value" /\ Upto(words, j)
    <3>1. Roles(words)[k + 1] = "value" /\ Upto(words, k + 2)
      BY <1>1, <1>4, <1>5, <1>12, UptoValue
    <3> QED
      BY <2>1, <2>2, <3>1
  <2>4. Skipped(ws, j, start, e, oth[j - 1])
    <3>1. Skipped(ws, k, start, end, o)
      BY <1>1 DEF Going
    <3>2. Skipped(ws, j, start, IF start # 0 /\ end = 0 THEN k ELSE end, o)
      BY <1>2, <1>3, <2>2, <3>1, SkippedFound
    <3>3. oth[c] = o
      BY <1>1, <1>6, <2>2, <2>3 DEF Kept
    <3> QED
      BY <1>1, <2>2, <3>2, <3>3
  <2>5. TaggedTo(words, j) = TaggedTo(words, k) \cup {k}
    <3>1. \A i \in 1 .. j - 1 : i \in 1 .. k - 1 \/ i = k \/ i = c
      BY <1>2, <2>1, <2>2
    <3>2. \A i \in 1 .. k - 1 : i \in 1 .. j - 1
      BY <1>2, <2>2
    <3>3. k \in 1 .. j - 1
      BY <1>2, <2>2
    <3> QED
      BY <1>5, <2>3, <3>1, <3>2, <3>3 DEF TaggedTo
  <2>6. \A i \in j .. Len(words) : ws[i] = words[i]
    BY <1>1, <1>2, <2>2 DEF Going
  <2>7. ArgsAre(after, words, TaggedTo(words, j))
    BY <1>10, <2>5
  <2>8. Going(words, oth, S, ws, j, start, e, after)
    BY <1>1, <1>2, <2>2, <2>3, <2>4, <2>6, <2>7 DEF Going
  <2> QED
    BY <2>2, <2>8
<1> QED
  BY <1>11, <1>12

LEMMA GetoptGoes ==
  ASSUME NEW S, NEW words \in Seq(S), NEW oth, Kept(oth, words), Others(words) = oth[Len(words)],
         NEW i \in Nat, NEW st, Underway(words, oth, S, i, st)
  PROVE  Underway(words, oth, S, i + 1, Getopt(st)) \/ Over(words, Getopt(st))
<1>1. PICK ws, k, start, end, args :
        /\ st = State(ws, k, start, end, FALSE, args)
        /\ k > i /\ Going(words, oth, S, ws, k, start, end, args)
  BY DEF Underway
<1>2. k \in 1 .. Len(words) + 1 /\ Len(words) \in Nat /\ k \in Nat
  <2>1. Len(words) \in Nat
    OBVIOUS
  <2> QED
    BY <1>1, <2>1 DEF Going
<1> DEFINE now == Getopt(State(ws, k, start, end, FALSE, args))
<1>3. Underway(words, oth, S, k, now) => Underway(words, oth, S, i + 1, now)
  <2> HIDE DEF now
  <2> SUFFICES ASSUME Underway(words, oth, S, k, now) PROVE Underway(words, oth, S, i + 1, now)
    OBVIOUS
  <2>1. PICK w, j, b, e, c : /\ now = State(w, j, b, e, FALSE, c)
                             /\ j > k /\ Going(words, oth, S, w, j, b, e, c)
    BY DEF Underway
  <2>2. j > i + 1
    <3>1. j \in 1 .. Len(words) + 1
      BY <2>1 DEF Going
    <3> QED
      BY <1>1, <1>2, <2>1, <3>1
  <2> QED
    BY <2>1, <2>2 DEF Underway
<1>4. CASE k > Len(words)
  BY <1>1, <1>4, OptionsRunOut
<1>5. CASE k <= Len(words) /\ words[k].kind = "end"
  BY <1>1, <1>5, OptionsEnd
<1>6. CASE k <= Len(words) /\ ~IsOption(words[k]) /\ PosixlyCorrect
  BY <1>1, <1>6, OptionsStop
<1>8. CASE k <= Len(words) /\ ~IsOption(words[k]) /\ ~PosixlyCorrect
  <2>1. Underway(words, oth, S, k, now)
    BY <1>1, <1>8, WordSkipped
  <2> QED
    BY <1>1, <1>3, <2>1
<1>7. CASE k <= Len(words) /\ IsOption(words[k]) /\ words[k].kind # "end"
  <2>1. Underway(words, oth, S, k, now)
    BY <1>1, <1>7, OptionMet
  <2> QED
    BY <1>1, <1>3, <2>1
<1> QED
  BY <1>2, <1>4, <1>5, <1>6, <1>7, <1>8

LEMMA GetoptStops ==
  ASSUME NEW words, NEW st, Over(words, st)
  PROVE  Getopt(st) = st
<1>1. st.done
  BY DEF Over, State
<1> QED
  BY <1>1 DEF Getopt

LEMMA GetoptBegins ==
  ASSUME NEW S, NEW words \in Seq(S), NEW oth, Kept(oth, words)
  PROVE  Underway(words, oth, S, 0, Unparsed(words))
<1>1. PICK names, args : /\ names = LongNames \cup {"file"}
                         /\ args = [given |-> [o \in names |-> <<>>], errors |-> 0]
  OBVIOUS
<1>2. Unparsed(words) = State(words, 1, 0, 0, FALSE, args)
  BY <1>1 DEF Unparsed, State
<1>3. TaggedTo(words, 1) = {}
  BY DEF TaggedTo
<1>4. /\ args.errors = 0 /\ args.given = [o \in names |-> <<>>]
      /\ args = [given |-> args.given, errors |-> args.errors]
  BY <1>1
<1>5. \A o \in names : args.given[o] = <<>>
  BY <1>4
<1>6. "file" \in names /\ LongNames \subseteq names /\ Literals \subseteq names
  BY <1>1 DEF LongNames
<1>7. Shaped(args)
  <2>1. args.given = [o \in names |-> args.given[o]]
    BY <1>4
  <2> QED
    BY <1>1, <1>4, <2>1, Zenon DEF Shaped
<1>8. AsGiven(args.given, args.errors, words, {})
  <2>1. PICK given, errors : given = args.given /\ errors = args.errors
    OBVIOUS
  <2>2. errors = 0 /\ \A o \in names : given[o] = <<>>
    BY <1>4, <1>5, <2>1
  <2>3. AsGiven(given, errors, words, {})
    BY <1>6, <2>2 DEF AsGiven
  <2> QED
    BY <2>1, <2>3
<1>9. ArgsAre(args, words, TaggedTo(words, 1))
  BY <1>3, <1>7, <1>8 DEF ArgsAre
<1>10. Upto(words, 1)
  BY DEF Upto
<1>11. Skipped(words, 1, 0, 0, oth[1 - 1])
  <2>1. oth[1 - 1] = <<>> /\ Len(<<>>) = 0
    BY DEF Kept
  <2> QED
    BY <2>1 DEF Skipped
<1>12. Going(words, oth, S, words, 1, 0, 0, args)
  <2>1. Len(words) \in Nat /\ 1 \in 1 .. Len(words) + 1
    OBVIOUS
  <2> QED
    BY <1>9, <1>10, <1>11, <2>1 DEF Going
<1>13. \E ws, k, start, end, a : /\ Unparsed(words) = State(ws, k, start, end, FALSE, a)
                                /\ k > 0 /\ Going(words, oth, S, ws, k, start, end, a)
  <2>1. 1 > 0
    OBVIOUS
  <2> QED
    BY <1>2, <1>12, <2>1
<1> QED
  BY <1>13, Zenon DEF Underway

(* What ParseTagged() leaves: the words that no option takes, in order      *)
LEMMA ParsedTagged ==
  ASSUME NEW S, NEW words \in Seq(S)
  PROVE  /\ LeftOver(ParseTagged(words), Len(words)) = Others(words)
         /\ ArgsAre(ParseTagged(words).args, words, Tagged(words))
<1>1. Len(words) \in Nat
  OBVIOUS
<1>2. PICK oth : Kept(oth, words) /\ Others(words) = oth[Len(words)]
  BY <1>1, OthersSteps
<1>3. PICK st : /\ st[0] = Unparsed(words)
                /\ \A i \in 1 .. Len(words) + 1 : st[i] = Getopt(st[i - 1])
                /\ ParseTagged(words) = st[Len(words) + 1]
  BY <1>1, GetoptSteps
<1>4. PICK n : n = Len(words) + 1
  OBVIOUS
<1>5. n \in Nat
  BY <1>1, <1>4
<1> DEFINE At(i) == Underway(words, oth, S, i, st[i]) \/ Over(words, st[i])
           T == {i \in 0 .. n : At(i)}
<1>6. 0 \in T
  <2>1. At(0)
    BY <1>2, <1>3, GetoptBegins
  <2> HIDE DEF At
  <2> QED
    BY <1>5, <2>1
<1>7. ASSUME NEW i \in 1 .. n, i - 1 \in T PROVE i \in T
  <2>1. PICK k : k = i - 1
    OBVIOUS
  <2>2. k \in Nat /\ k + 1 = i /\ st[i] = Getopt(st[k]) /\ At(k)
    <3> HIDE DEF At
    <3> QED
      BY <1>3, <1>4, <1>5, <1>7, <2>1
  <2>3. CASE Underway(words, oth, S, k, st[k])
    <3>1. Underway(words, oth, S, k + 1, Getopt(st[k])) \/ Over(words, Getopt(st[k]))
      BY <1>2, <2>2, <2>3, GetoptGoes
    <3> QED
      BY <2>2, <3>1
  <2>4. CASE Over(words, st[k])
    <3>1. Getopt(st[k]) = st[k]
      BY <2>4, GetoptStops
    <3> QED
      BY <2>2, <2>4, <3>1
  <2> QED
    BY <2>2, <2>3, <2>4
<1>8. At(n)
  <2>1. \A i \in 0 .. n : i \in T
    <3> HIDE DEF T
    <3> QED
      BY <1>5, <1>6, <1>7, Along
  <2> HIDE DEF At
  <2> QED
    BY <1>5, <2>1
<1>9. ~Underway(words, oth, S, n, st[n])
  <2> SUFFICES ASSUME Underway(words, oth, S, n, st[n]) PROVE FALSE
    OBVIOUS
  <2>1. PICK k : k > n /\ k \in 1 .. Len(words) + 1
    BY DEF Underway, Going
  <2> QED
    BY <1>1, <1>4, <2>1
<1>10. PICK ws, k, start, args :
         ParseTagged(words) = State(ws, k, start, 0, TRUE, args) /\ Ended(words, ws, k, args)
  BY <1>3, <1>4, <1>8, <1>9 DEF Over
<1>11. ParseTagged(words).words = ws /\ ParseTagged(words).optind = k
       /\ ParseTagged(words).args = args
  BY <1>10 DEF State
<1>12. Ended(words, ws, k, args)
  BY <1>10
<1> QED
  BY <1>11, <1>12 DEF Ended, LeftOver

-----------------------------------------------------------------------------
(* The words that no option takes, and what it all comes to                 *)

Filed(args, before, others, i) ==
  /\ Shaped(args) /\ args.errors \in Nat
  /\ \A o \in LongNames : args.given[o] = before.given[o]
  /\ args.given["file"] = IF i = 0 THEN <<>> ELSE <<others[1]>>
  /\ i <= 1 => args.errors = before.errors
  /\ i > 1 => args.errors > 0
  /\ before.errors > 0 => args.errors > 0

LEMMA FileScanned ==
  ASSUME NEW args, NEW before, NEW others, NEW i \in Nat, Filed(args, before, others, i)
  PROVE  Filed(Scan(args, "file", others[i + 1]), before, others, i + 1)
<1>1. PICK given, errors, word, after :
        /\ given = args.given /\ errors = args.errors /\ word = others[i + 1]
        /\ after = Scan(args, "file", word)
  OBVIOUS
<1>2. /\ Shaped(args) /\ errors \in Nat
      /\ \A o \in LongNames : given[o] = before.given[o]
      /\ given["file"] = IF i = 0 THEN <<>> ELSE <<others[1]>>
      /\ i <= 1 => errors = before.errors
      /\ i > 1 => errors > 0
      /\ before.errors > 0 => errors > 0
  BY <1>1 DEF Filed
<1>3. "file" \notin Numeric /\ "file" \notin LongNames
  BY DEF LongNames, Literals, Valued, Numeric
<1>4. CASE i = 0
  <2>1. given["file"] = <<>> /\ errors = before.errors
    BY <1>2, <1>4
  <2>2. after = [args EXCEPT !.given["file"] = <<word>>]
    BY <1>1, <1>3, <2>1 DEF Scan
  <2>3. args = [given |-> given, errors |-> errors]
    BY <1>1, <1>2 DEF Shaped
  <2>4. PICK g : g = [given EXCEPT !["file"] = <<word>>]
    OBVIOUS
  <2>5. after = [given |-> g, errors |-> errors]
    BY <2>2, <2>3, <2>4
  <2>6. after.given = g /\ after.errors = errors
    BY <2>5
  <2>7. PICK names : names = LongNames \cup {"file"}
    OBVIOUS
  <2>8. given = [o \in names |-> given[o]]
    BY <1>1, <1>2, <2>7 DEF Shaped
  <2>9. "file" \in names /\ LongNames \subseteq names
    BY <2>7
  <2>10. /\ g = [o \in names |-> g[o]] /\ g["file"] = <<word>>
         /\ \A o \in LongNames : g[o] = given[o]
    BY <1>3, <2>4, <2>8, <2>9
  <2>11. Shaped(after)
    BY <2>5, <2>6, <2>7, <2>10, Zenon DEF Shaped
  <2>12. word = others[1] /\ i + 1 = 1
    BY <1>1, <1>4
  <2>13. Filed(after, before, others, i + 1)
    <3>1. i + 1 <= 1 /\ ~(i + 1 > 1) /\ i + 1 # 0
      BY <1>4
    <3>2. \A o \in LongNames : after.given[o] = before.given[o]
      BY <1>2, <2>6, <2>10
    <3>3. after.given["file"] = IF i + 1 = 0 THEN <<>> ELSE <<others[1]>>
      BY <2>6, <2>10, <2>12, <3>1
    <3> QED
      BY <1>2, <2>1, <2>6, <2>11, <3>1, <3>2, <3>3 DEF Filed
  <2> QED
    BY <1>1, <2>13
<1>5. CASE i # 0
  <2>1. given["file"] = <<others[1]>>
    BY <1>2, <1>5
  <2>2. after = RegisterError(args)
    BY <1>1, <2>1 DEF Scan
  <2>3. Shaped(after) /\ after.given = given /\ after.errors \in Nat /\ after.errors > 0
    BY <1>1, <1>2, <2>2, ErrorRegistered
  <2>4. i + 1 > 1 /\ i + 1 # 0
    BY <1>5
  <2>5. Filed(after, before, others, i + 1)
    BY <1>2, <2>1, <2>3, <2>4 DEF Filed
  <2> QED
    BY <1>1, <2>5
<1> QED
  BY <1>4, <1>5

LEMMA ParsedUntagged ==
  ASSUME NEW args, NEW others, Len(others) \in Nat, Shaped(args), args.errors \in Nat,
         args.given["file"] = <<>>
  PROVE  Filed(ParseUntagged(args, others), args, others, Len(others))
<1>1. PICK st : /\ st[0] = args
                /\ \A i \in 1 .. Len(others) : st[i] = Scan(st[i - 1], "file", others[i])
                /\ ParseUntagged(args, others) = st[Len(others)]
  BY UntaggedSteps
<1>2. PICK n : n = Len(others)
  OBVIOUS
<1>3. n \in Nat
  BY <1>2
<1> DEFINE At(i) == Filed(st[i], args, others, i)
           T == {i \in 0 .. n : At(i)}
<1>4. 0 \in T
  <2>1. At(0)
    BY <1>1 DEF Filed
  <2> HIDE DEF At
  <2> QED
    BY <1>3, <2>1
<1>5. ASSUME NEW i \in 1 .. n, i - 1 \in T PROVE i \in T
  <2>1. PICK k : k = i - 1
    OBVIOUS
  <2>2. k \in Nat /\ k + 1 = i /\ st[i] = Scan(st[k], "file", others[k + 1]) /\ At(k)
    <3> HIDE DEF At
    <3>1. k \in Nat /\ k + 1 = i
      BY <1>3, <2>1
    <3> QED
      BY <1>1, <1>2, <1>5, <2>1, <3>1
  <2>3. Filed(Scan(st[k], "file", others[k + 1]), args, others, k + 1)
    BY <2>2, FileScanned
  <2> QED
    BY <2>2, <2>3
<1>6. \A i \in 0 .. n : i \in T
  <2> HIDE DEF T
  <2> QED
    BY <1>3, <1>4, <1>5, Along
<1>7. At(n)
  <2> HIDE DEF At
  <2> QED
    BY <1>3, <1>6
<1> QED
  BY <1>1, <1>2, <1>7

(* The words that no option takes, by their number                          *)
LEMMA OthersAre ==
  ASSUME NEW S, NEW words \in Seq(S)
  PROVE  /\ Len(Others(words)) = Cardinality(Untagged(words))
         /\ Len(Others(words)) \in Nat
         /\ \A p \in 1 .. Len(Others(words)) :
              \E i \in Untagged(words) : Others(words)[p] = words[i]
<1>1. Len(words) \in Nat /\ DOMAIN words = 1 .. Len(words)
  OBVIOUS
<1>2. PICK st : Kept(st, words) /\ Others(words) = st[Len(words)]
  BY <1>1, OthersSteps
<1>3. PICK n, last : n = Len(words) /\ last = st[n]
  OBVIOUS
<1>4. n \in 0 .. Len(words)
  BY <1>1, <1>3
<1>5. /\ last \in Seq(S)
      /\ Len(last) = Cardinality({j \in 1 .. n : Roles(words)[j] = "other"})
      /\ \A p \in 1 .. Len(last) :
           \E j \in 1 .. n : Roles(words)[j] = "other" /\ last[p] = words[j]
  BY <1>2, <1>3, <1>4, KeptWords
<1>6. Untagged(words) = {j \in 1 .. n : Roles(words)[j] = "other"}
  BY <1>1, <1>3 DEF Untagged
<1> QED
  BY <1>2, <1>3, <1>5, <1>6

LEMMA WordSets ==
  ASSUME NEW S, NEW words \in Seq(S)
  PROVE  /\ IsFiniteSet(Untagged(words))
         /\ \A o : IsFiniteSet(Uses(words, o))
<1>1. Len(words) \in Nat /\ DOMAIN words = 1 .. Len(words)
  OBVIOUS
<1>2. IsFiniteSet(1 .. Len(words))
  BY <1>1, FS_Interval
<1>3. Untagged(words) \in SUBSET (1 .. Len(words))
  BY <1>1 DEF Untagged
<1>4. \A o : Uses(words, o) \in SUBSET (1 .. Len(words))
  BY <1>1 DEF Uses, Tagged
<1> QED
  BY <1>2, <1>3, <1>4, FS_Subset

LEMMA GivenToNone ==
  ASSUME NEW words, NEW o, (IF o = "file" THEN Untagged(words) ELSE Uses(words, o)) = {}
  PROVE  GivenTo(words, o) = <<>>
<1>1. TheOne({}) = <<>>
  BY DEF TheOne
<1>2. o = "file" => {words[i] : i \in Untagged(words)} = {}
  OBVIOUS
<1>3. o # "file" => {ValueOf(words, i) : i \in Uses(words, o)} = {}
  OBVIOUS
<1> QED
  BY <1>1, <1>2, <1>3 DEF GivenTo

LEMMA GivenToOne ==
  ASSUME NEW words, NEW o, NEW i,
         (IF o = "file" THEN Untagged(words) ELSE Uses(words, o)) = {i}
  PROVE  GivenTo(words, o) = <<IF o = "file" THEN words[i] ELSE ValueOf(words, i)>>
<1>1. \A v : TheOne({v}) = <<v>>
  <2> TAKE v
  <2>1. (CHOOSE w \in {v} : TRUE) = v
    OBVIOUS
  <2> QED
    BY <2>1 DEF TheOne
<1>2. o = "file" => {words[k] : k \in Untagged(words)} = {words[i]}
  OBVIOUS
<1>3. o # "file" => {ValueOf(words, k) : k \in Uses(words, o)} = {ValueOf(words, i)}
  OBVIOUS
<1> QED
  BY <1>1, <1>2, <1>3 DEF GivenTo

LEMMA ParsedArgs ==
  ASSUME NEW S, NEW words \in Seq(S)
  PROVE  /\ \A o \in Literals : ArgParse(words).given[o] # <<>> <=> AsksFor(words, o)
         /\ ArgParse(words).errors > 0 <=> Wrong(words)
         /\ ~Wrong(words) =>
              ArgParse(words).given = [o \in LongNames \cup {"file"} |-> GivenTo(words, o)]
<1>1. PICK tagged, others, args :
        /\ tagged = ParseTagged(words).args /\ others = Others(words)
        /\ args = ParseUntagged(tagged, others)
  OBVIOUS
<1>2. ArgParse(words) = args /\ ArgsAre(tagged, words, Tagged(words))
  <2>1. /\ LeftOver(ParseTagged(words), Len(words)) = Others(words)
        /\ ArgsAre(ParseTagged(words).args, words, Tagged(words))
    BY ParsedTagged
  <2> QED
    BY <1>1, <2>1 DEF ArgParse
<1>3. PICK given, errors : given = tagged.given /\ errors = tagged.errors
  OBVIOUS
<1>4. AsGiven(given, errors, words, Tagged(words)) /\ Shaped(tagged)
  BY <1>2, <1>3 DEF ArgsAre
<1>5. /\ errors \in Nat /\ given["file"] = <<>>
      /\ \A o \in Literals : given[o] # <<>> <=>
           \E i \in Tagged(words) : OptionOf(words[i]) = {o} /\ words[i].attached = None
      /\ \A o \in LongNames :
           given[o] # <<>> => \E i \in Tagged(words) : OptionOf(words[i]) = {o}
  BY <1>4 DEF AsGiven
<1>6. errors = 0 =>
        \A i \in Tagged(words) :
          /\ ~Mistaken(words, i)
          /\ \A o \in LongNames : OptionOf(words[i]) = {o} =>
               /\ given[o] = <<ValueOf(words, i)>>
               /\ \A j \in Tagged(words) : OptionOf(words[j]) = {o} => j = i
  BY <1>4 DEF AsGiven
<1>7. errors > 0 =>
        \/ \E i \in Tagged(words) : Mistaken(words, i)
        \/ \E o \in LongNames : \E i, j \in Tagged(words) :
             i # j /\ OptionOf(words[i]) = {o} /\ OptionOf(words[j]) = {o}
  BY <1>4 DEF AsGiven
<1>8. /\ Len(others) = Cardinality(Untagged(words)) /\ Len(others) \in Nat
      /\ \A p \in 1 .. Len(others) : \E i \in Untagged(words) : others[p] = words[i]
  BY <1>1, OthersAre
<1>9. PICK m : m = Len(others)
  OBVIOUS
<1>10. /\ Shaped(args) /\ args.errors \in Nat
       /\ \A o \in LongNames : args.given[o] = given[o]
       /\ args.given["file"] = IF m = 0 THEN <<>> ELSE <<others[1]>>
       /\ m <= 1 => args.errors = errors
       /\ m > 1 => args.errors > 0
       /\ errors > 0 => args.errors > 0
  <2>1. Filed(ParseUntagged(tagged, others), tagged, others, Len(others))
    BY <1>3, <1>4, <1>5, <1>8, ParsedUntagged
  <2> QED
    BY <1>1, <1>3, <1>9, <2>1 DEF Filed
<1>11. \A o : Cardinality(Uses(words, o)) > 1 <=> \E i, j \in Uses(words, o) : i # j
  BY WordSets, TwoOf
<1>12. \A o, i : i \in Uses(words, o) <=> i \in Tagged(words) /\ OptionOf(words[i]) = {o}
  BY DEF Uses
<1>13. \A o \in Literals : args.given[o] # <<>> <=> AsksFor(words, o)
  <2> TAKE o \in Literals
  <2>1. args.given[o] = given[o]
    BY <1>10 DEF LongNames
  <2> QED
    BY <1>5, <1>12, <2>1 DEF AsksFor
<1>14. args.errors > 0 => Wrong(words)
  <2> SUFFICES ASSUME args.errors > 0 PROVE Wrong(words)
    OBVIOUS
  <2>1. CASE m > 1
    BY <1>8, <1>9, <2>1 DEF Wrong
  <2>2. CASE errors > 0
    <3>1. CASE \E i \in Tagged(words) : Mistaken(words, i)
      BY <3>1 DEF Wrong
    <3>2. CASE \E o \in LongNames : \E i, j \in Tagged(words) :
                 i # j /\ OptionOf(words[i]) = {o} /\ OptionOf(words[j]) = {o}
      <4>1. PICK o \in LongNames, i \in Tagged(words), j \in Tagged(words) :
              i # j /\ OptionOf(words[i]) = {o} /\ OptionOf(words[j]) = {o}
        BY <3>2
      <4>2. i \in Uses(words, o) /\ j \in Uses(words, o) /\ i # j
        BY <1>12, <4>1
      <4>3. Cardinality(Uses(words, o)) > 1
        BY <1>11, <4>2
      <4> QED
        BY <4>3 DEF Wrong
    <3> QED
      BY <1>7, <2>2, <3>1, <3>2
  <2> QED
    BY <1>8, <1>9, <1>10, <2>1, <2>2
<1>15. Wrong(words) => args.errors > 0
  <2> SUFFICES ASSUME Wrong(words) PROVE args.errors > 0
    OBVIOUS
  <2>1. CASE Cardinality(Untagged(words)) > 1
    BY <1>8, <1>9, <1>10, <2>1
  <2>2. CASE \E o \in LongNames : Cardinality(Uses(words, o)) > 1
    <3>1. PICK o \in LongNames : \E i, j \in Uses(words, o) : i # j
      BY <1>11, <2>2
    <3>2. errors # 0
      BY <1>6, <1>12, <3>1
    <3>3. errors > 0
      BY <1>5, <3>2
    <3> QED
      BY <1>10, <3>3
  <2>3. CASE \E i \in Tagged(words) : Mistaken(words, i)
    <3>1. errors # 0
      BY <1>6, <2>3
    <3>2. errors > 0
      BY <1>5, <3>1
    <3> QED
      BY <1>10, <3>2
  <2> QED
    BY <2>1, <2>2, <2>3 DEF Wrong
<1>16. ASSUME ~Wrong(words), NEW o \in LongNames \cup {"file"}
       PROVE  args.given[o] = GivenTo(words, o)
  <2>1. errors = 0 /\ m <= 1
    <3>1. ~(args.errors > 0)
      BY <1>14, <1>16
    <3> QED
      BY <1>5, <1>8, <1>9, <1>10, <3>1
  <2>2. CASE o = "file"
    <3>1. CASE m = 0
      <4>1. Untagged(words) = {}
        BY <1>8, <1>9, <3>1, WordSets, FS_EmptySet
      <4>2. GivenTo(words, o) = <<>>
        BY <2>2, <4>1, GivenToNone
      <4> QED
        BY <1>10, <2>2, <3>1, <4>2
    <3>2. CASE m = 1
      <4>1. PICK i : Untagged(words) = {i}
        BY <1>8, <1>9, <3>2, WordSets, FS_Singleton
      <4>2. GivenTo(words, o) = <<words[i]>>
        BY <2>2, <4>1, GivenToOne
      <4>3. others[1] = words[i]
        BY <1>8, <1>9, <3>2, <4>1
      <4> QED
        BY <1>10, <2>2, <3>2, <4>2, <4>3
    <3> QED
      BY <1>8, <1>9, <2>1, <3>1, <3>2
  <2>3. CASE o \in LongNames
    <3>1. args.given[o] = given[o] /\ o # "file"
      BY <1>10, <2>3 DEF LongNames, Literals, Valued, Numeric
    <3>2. CASE Uses(words, o) = {}
      <4>1. given[o] = <<>>
        BY <1>5, <1>12, <2>3, <3>2
      <4>2. GivenTo(words, o) = <<>>
        BY <3>1, <3>2, GivenToNone
      <4> QED
        BY <3>1, <4>1, <4>2
    <3>3. CASE Uses(words, o) # {}
      <4>1. PICK i : i \in Uses(words, o)
        BY <3>3
      <4>2. given[o] = <<ValueOf(words, i)>> /\ Uses(words, o) = {i}
        <5>1. i \in Tagged(words) /\ OptionOf(words[i]) = {o}
          BY <1>12, <4>1
        <5>2. /\ given[o] = <<ValueOf(words, i)>>
              /\ \A j \in Tagged(words) : OptionOf(words[j]) = {o} => j = i
          BY <1>6, <2>1, <2>3, <5>1
        <5>3. \A j \in Uses(words, o) : j = i
          BY <1>12, <5>2
        <5> QED
          BY <4>1, <5>2, <5>3
      <4>3. GivenTo(words, o) = <<ValueOf(words, i)>>
        BY <3>1, <4>2, GivenToOne
      <4> QED
        BY <3>1, <4>2, <4>3
    <3> QED
      BY <3>2, <3>3
  <2> QED
    BY <2>2, <2>3
<1>17. ~Wrong(words) => args.given = [o \in LongNames \cup {"file"} |-> GivenTo(words, o)]
  <2>1. args.given = [o \in LongNames \cup {"file"} |-> args.given[o]]
    BY <1>10 DEF Shaped
  <2> QED
    BY <1>16, <2>1
<1> QED
  BY <1>2, <1>13, <1>14, <1>15, <1>17

(* The parser reads a command line for what it means, whatever is on it:     *)
(* words of letters that are no options, with or without an option behind    *)
(* them, and whether or not the environment has POSIXLY_CORRECT.             *)
THEOREM CommandLineIsRead ==
  ASSUME NEW S, NEW words \in Seq(S)
  PROVE  /\ ParseArgs(words) = Meaning(words)
         /\ LeftOver(ParseTagged(words), Len(words)) = Others(words)
<1>1. PICK args, given : args = ArgParse(words)
                         /\ given = [o \in LongNames \cup {"file"} |-> GivenTo(words, o)]
  OBVIOUS
<1>2. /\ \A o \in Literals : args.given[o] # <<>> <=> AsksFor(words, o)
      /\ args.errors > 0 <=> Wrong(words)
      /\ ~Wrong(words) => args.given = given
  BY <1>1, ParsedArgs
<1>3. "help" \in Literals /\ "usage" \in Literals /\ "version" \in Literals
  BY DEF Literals
<1>4. Meaning(words) =
        IF AsksFor(words, "help") THEN Exit("help")
        ELSE IF AsksFor(words, "usage") THEN Exit("usage")
        ELSE IF AsksFor(words, "version") THEN Exit("version")
        ELSE IF Wrong(words) THEN Exit("error")
        ELSE IF ~Valid(given) THEN Exit("invalid")
        ELSE Started(given)
  BY <1>1 DEF Meaning
<1>5. ParseArgs(words) =
        IF args.given["help"] # <<>> THEN Exit("help")
        ELSE IF args.given["usage"] # <<>> THEN Exit("usage")
        ELSE IF args.given["version"] # <<>> THEN Exit("version")
        ELSE IF args.errors > 0 THEN Exit("error")
        ELSE IF ~Valid(args.given) THEN Exit("invalid")
        ELSE Started(args.given)
  BY <1>1, <1>3 DEF ParseArgs
<1>6. ParseArgs(words) = Meaning(words)
  BY <1>2, <1>3, <1>4, <1>5
<1> QED
  BY <1>6, ParsedTagged

LEMMA NothingMisread == Misread = {}
<1> SUFFICES ASSUME NEW words \in Argvs
             PROVE  /\ ParseArgs(words) = Meaning(words)
                    /\ LeftOver(ParseTagged(words), Len(words)) = Others(words)
  BY DEF Misread
<1>1. words \in Seq({words[i] : i \in DOMAIN words})
  BY CommandLineAssumption DEF CommandLineAssumption
<1> QED
  BY <1>1, CommandLineIsRead
=============================================================================

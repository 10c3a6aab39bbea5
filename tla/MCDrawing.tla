------------------------------ MODULE MCDrawing -----------------------------
(* Small instances of Drawing for TLC. *)
EXTENDS Drawing

CONSTANTS a, b

TwoChars == {a, Blank}

(* Empty, blank lines, inner blanks, a short line after a long one *)
EndedTexts ==
  {<<>>, <<NL, NL>>, <<NL, a, NL>>, <<a, Blank, a, NL, Blank, a, NL>>}

(* The same with a last line that is not ended *)
AnyTexts == EndedTexts \cup {<<a>>, <<a, NL, a, a, a>>}

(* How much is typed of the names: of none, one or two options, or in full *)
Typed == [typed \in {"h", "wi", "foo"} |->
            CASE typed = "h" -> {"help", "height"}
              [] typed = "wi" -> {"width"}
              [] typed = "foo" -> {}]

Two == Numeral(1, "", <<2>>, "")
Hex == Numeral(1, "0x", <<0, 3>>, "")
NotBinary == Numeral(1, "0b", <<1, 2>>, "")
Huge == Numeral(1, "", <<2>>, "GB")
Negative == Numeral(-1, "", <<2>>, "")

Words == {Text("f"), Text("-"), Text(""), EndOfOptions, Two, Negative,
          Short("h", Two), Short("w", NotBinary), Short("w", None), Letters,
          Behind(Short("h", None)), Behind(Long("help", None)),
          Short("s", Text("a")), Short("p", None),
          Long("wi", None), Long("h", None), Long("foo", None), Long("width", Hex),
          Long("width", Huge), Long("server", Text("")), Long("help", None),
          Long("usage", Text("a")), Long("version", None)}

ShortArgvs == UNION {[1 .. n -> Words] : n \in 0 .. 3}

(* Longer ones, of few words, so that several blocks have to be moved *)
FewWords == {Text("f"), EndOfOptions, Short("w", None), Short("h", Two), Two}
LongArgvs == UNION {[1 .. n -> FewWords] : n \in 4 .. 6}

SomeArgvs == ShortArgvs \cup LongArgvs

(* ParsedAsMeant where the environment has POSIXLY_CORRECT: options end at   *)
(* the first word that is none, and no word is moved.                       *)
Posix == INSTANCE CommandLine WITH PosixlyCorrect <- TRUE
PosixAllRead == Posix!Misread = {}
PosixParsedAsMeant == ~running => PosixAllRead
=============================================================================
